---- MODULE Spec2Model ----
(***************************************************************************)
(* A model of the practo-scraper crawl-parse-persist pipeline.             *)
(*                                                                         *)
(*   Part I   utils/http.py      make_request: the retrying fetch          *)
(*   Part II  config.py, db/insert_db.py: the relational store, the entity *)
(*            upsert (insert_main_data) and the relation batch             *)
(*            (insert_relation_data)                                       *)
(*                                                                         *)
(*   Part III main.py            the traversal: seed URLs, pages, profiles *)
(*   Part IV  parser/doctor.py, parser/establishment.py: clean_numeric,    *)
(*            the name split and the relation expansion                    *)
(*                                                                         *)
(* Each part has its own next-state relation and specification; the        *)
(* variables of the other parts stay at their initial value.               *)
(***************************************************************************)
EXTENDS Integers, Sequences, FiniteSets, TLC

VARIABLES
    \* ---- Part I: one call of make_request (utils/http.py) ----
    mr_pc,          \* "idle" | "attempt" | "failed" | "returned" | "raised"
    url,            \* argument url
    max_retries,    \* argument max_retries
    retry_delay,    \* argument retry_delay
    return_json,    \* argument return_json
    attempt,        \* the loop variable of `for attempt in range(max_retries)`
    response,       \* status code of the local `response`, NoResponse while unbound
    last_outcome,   \* what the latest requests.request call did (history)
    only_retryable, \* every attempt so far met a retryable error (history)
    n_requests,     \* number of requests.request calls of this call (history)
    sleeps,         \* the time.sleep durations of this call, in order (history)
    mr_result,      \* what the call returned ("json" | "content"), "none" before
    err,            \* the RequestError raised: [message, status_code, url], NoError before
    \* ---- Part II: the relational store and the persistence calls ----
    practo_doctors,               \* committed rows of table practo_doctors
    practo_establishments,        \* committed rows of table practo_establishments
    practo_doctor_establishment,  \* committed rows of the edge table, in insertion order
    schema_not_null,  \* whether the edge table's two id columns are NOT NULL
    db_pc,            \* "idle" | "main_loop" | "rel_check" | "rel_stub" | "rel_edge"
    conn_open,        \* number of open connections
    tx_doctors,       \* practo_doctors as the open transaction sees it
    tx_establishments,
    tx_relations,
    tx_aborted,       \* the open transaction is in the failed state
    batch,            \* the items of data / relation not iterated over yet
    doctor_exists,    \* locals of insert_relation_data, set by the existence check
    establishment_exists,
    call,             \* the arguments of the current (or latest) persistence call
    item_log,         \* per item iterated over: how it ended, an ExecuteOutcomes (history)
    stub_log,         \* UUIDs for which a stub INSERT statement ran, in order (history)
    db_raised,        \* the exception the latest call ended with, "none" if it returned
    n_calls,          \* persistence calls made so far
    \* ---- Part III: one run of main() (main.py) ----
    main_pc,        \* where the run is: "start" | "load_urls" | "next_url" |
                    \* "seed_fetch" | "count" | "page_begin" | "page_fetch" |
                    \* "page_type" | "page_main" | "profile_json" |
                    \* "profile_html" | "profile_relation" | "completed" | "exited"
    exit_status,    \* the status the process ended with, Running before
    urls,           \* the seed URLs read from urls.txt
    url_index,      \* loop variable of `for url_index, link in enumerate(urls)`
    link,           \* the current seed URL
    seed_response,  \* the JSON body of the seed URL's response
    count,          \* the result count of the current seed URL
    result_type,    \* the entity type in use
    total_pages,
    page,           \* loop variable of the page loop
    page_url,
    page_response,  \* the JSON body of the current page
    profile,        \* the ProfileReferences of the page not processed yet
    success_count,
    error_count,
    page_log,       \* the page URLs fetched for the current seed URL, in order (history)
    pause_log,      \* the pacing pauses of the current seed URL (history)
    seed_calls,     \* whether a profile was fetched / a persistence call made for the
                    \* current seed URL (history)
    run_effects,    \* whether the run has issued a request / made a persistence call (history)
    step_outcome,   \* how the call made by the latest step ended, "none" if it made none (history)
    \* ---- Part IV: one call of a function of the parsers ----
    fn,             \* the function called
    arg,            \* its argument
    ret             \* what it returned or raised, Pending before

httpVars == <<mr_pc, url, max_retries, retry_delay, return_json, attempt,
              response, last_outcome, only_retryable, n_requests, sleeps,
              mr_result, err>>

dbVars == <<practo_doctors, practo_establishments, practo_doctor_establishment,
            schema_not_null, db_pc, conn_open, tx_doctors, tx_establishments,
            tx_relations, tx_aborted, batch, doctor_exists, establishment_exists,
            call, item_log, stub_log, db_raised, n_calls>>

mainVars == <<main_pc, exit_status, urls, url_index, link, seed_response, count,
              result_type, total_pages, page, page_url, page_response, profile,
              success_count, error_count, page_log, pause_log, seed_calls,
              run_effects, step_outcome>>

parseVars == <<fn, arg, ret>>

vars == <<httpVars, dbVars, mainVars, parseVars>>

(***************************************************************************)
(* Bounds of the model.                                                    *)
(***************************************************************************)
MaxRetriesBound == 4
MaxRetryDelay == 2
MaxBatch == 2           \* longest data / relation batch of one call
MaxCalls == 1           \* persistence calls made on top of the initial store
MaxFaults == 1          \* statements of one call that fail of their own

(***************************************************************************)
(* Part I.  utils/http.py                                                  *)
(***************************************************************************)
None == 0               \* Python's None where a number is expected
NoResponse == 0         \* `response` not bound yet
NoError == [message |-> "none", status_code |-> None, url |-> "none"]

Urls == {"listing_url", "profile_url"}

\* The HTTP status codes the upstream answers with in the model: success,
\* two client errors, rate limiting, two server errors.
StatusCodes == {200, 400, 404, 429, 500, 503}

\* What one requests.request call can do: raise ConnectionError, raise
\* Timeout, raise another RequestException, or hand back a response with a
\* status code and a body that is or is not valid JSON.
Outcomes ==
    [kind : {"ConnectionError", "Timeout", "RequestException"},
     status : {NoResponse}, json_ok : {FALSE}]
    \cup [kind : {"response"}, status : StatusCodes, json_ok : BOOLEAN]

\* The errors called retryable: a connection failure, a timeout, an HTTP 5xx
\* and an HTTP 429.  (Used by the history variable only_retryable, not by
\* the code.)
IsRetryableError(o) ==
    \/ o.kind \in {"ConnectionError", "Timeout"}
    \/ o.kind = "response" /\ (o.status = 429 \/ (o.status >= 500 /\ o.status < 600))

RECURSIVE Pow2(_)
Pow2(n) == IF n = 0 THEN 1 ELSE 2 * Pow2(n - 1)

\* response.raise_for_status(): HTTPError for a 4xx or 5xx status.
raise_for_status(status) == status >= 400 /\ status < 600

\* Mutants of the test of line 95: one that forgets the exception made for
\* 429, one that never fails at once.
IsFatalClientError_Without429(status) == status >= 400 /\ status < 500
IsFatalClientError_Never(status) == FALSE

\* The test of line 95: a client error that is not retried.
IsFatalClientError(status) == status >= 400 /\ status < 500 /\ status # 429

\* A mutant of line 112: a backoff that grows linearly.
sleep_time_Linear(delay, k) == delay * (k + 1)

\* sleep_time of line 112.
sleep_time(delay, k) == delay * Pow2(k)

\* RequestError.__init__: message, status_code=None, url=None.
RequestError(message, status_code, u) ==
    [message |-> message, status_code |-> status_code, url |-> u]

\* The RequestError of lines 96-101.
HTTPErrorRaised(status, u) == RequestError("HTTP error", status, u)

\* The RequestError of line 106: no status_code is passed.
InvalidJSONRaised(u) == RequestError("Invalid JSON response", None, u)

\* The RequestError of lines 117-120: only the url is passed.
ExhaustedRaised(u) == RequestError("Request failed after max_retries attempts", None, u)

InitHTTP ==
    /\ mr_pc = "idle"
    /\ url = "none"
    /\ max_retries = 0
    /\ retry_delay = 0
    /\ return_json = TRUE
    /\ attempt = 0
    /\ response = NoResponse
    /\ last_outcome = [kind |-> "none", status |-> NoResponse, json_ok |-> FALSE]
    /\ only_retryable = TRUE
    /\ n_requests = 0
    /\ sleeps = <<>>
    /\ mr_result = "none"
    /\ err = NoError

\* A call of make_request(url, max_retries=..., retry_delay=..., return_json=...):
\* the loop starts with attempt = 0.
make_request ==
    /\ mr_pc \in {"idle", "returned", "raised"}
    /\ \E u \in Urls, m \in 1..MaxRetriesBound, d \in 1..MaxRetryDelay, j \in BOOLEAN :
        /\ url' = u
        /\ max_retries' = m
        /\ retry_delay' = d
        /\ return_json' = j
    /\ mr_pc' = "attempt"
    /\ attempt' = 0
    /\ response' = NoResponse
    /\ last_outcome' = [kind |-> "none", status |-> NoResponse, json_ok |-> FALSE]
    /\ only_retryable' = TRUE
    /\ n_requests' = 0
    /\ sleeps' = <<>>
    /\ mr_result' = "none"
    /\ err' = NoError
    /\ UNCHANGED <<dbVars, mainVars, parseVars>>

\* A mutant of the except ValueError clause: the RequestError raised on
\* whichever attempt the decoding fails.
Request_DecodeErrorFatal(o) ==
    /\ mr_pc = "attempt"
    /\ n_requests' = n_requests + 1
    /\ last_outcome' = o
    /\ only_retryable' = (only_retryable /\ IsRetryableError(o))
    /\ response' = IF o.kind = "response" THEN o.status ELSE response
    /\ IF o.kind # "response"
         THEN \* except ConnectionError / Timeout / RequestException: logged only
              /\ mr_pc' = "failed"
              /\ UNCHANGED <<mr_result, err>>
         ELSE IF raise_for_status(o.status)
         THEN \* except HTTPError (lines 92-101)
              IF IsFatalClientError(o.status)
                THEN /\ mr_pc' = "raised"
                     /\ err' = HTTPErrorRaised(o.status, url)
                     /\ UNCHANGED mr_result
                ELSE /\ mr_pc' = "failed"
                     /\ UNCHANGED <<mr_result, err>>
         ELSE IF ~return_json
         THEN \* return response.content
              /\ mr_pc' = "returned"
              /\ mr_result' = "content"
              /\ UNCHANGED err
         ELSE IF o.json_ok
         THEN \* return response.json()
              /\ mr_pc' = "returned"
              /\ mr_result' = "json"
              /\ UNCHANGED err
         ELSE \* except ValueError
              IF TRUE
                THEN /\ mr_pc' = "raised"
                     /\ err' = InvalidJSONRaised(url)
                     /\ UNCHANGED mr_result
                ELSE /\ mr_pc' = "failed"
                     /\ UNCHANGED <<mr_result, err>>
    /\ UNCHANGED <<url, max_retries, retry_delay, return_json, attempt, sleeps>>
    /\ UNCHANGED <<dbVars, mainVars, parseVars>>

\* The try block of one loop iteration (lines 62-108): the request, then
\* raise_for_status, then the decoding, then the except clause that matches.
Request(o) ==
    /\ mr_pc = "attempt"
    /\ n_requests' = n_requests + 1
    /\ last_outcome' = o
    /\ only_retryable' = (only_retryable /\ IsRetryableError(o))
    /\ response' = IF o.kind = "response" THEN o.status ELSE response
    /\ IF o.kind # "response"
         THEN \* except ConnectionError / Timeout / RequestException: logged only
              /\ mr_pc' = "failed"
              /\ UNCHANGED <<mr_result, err>>
         ELSE IF raise_for_status(o.status)
         THEN \* except HTTPError (lines 92-101)
              IF IsFatalClientError(o.status)
                THEN /\ mr_pc' = "raised"
                     /\ err' = HTTPErrorRaised(o.status, url)
                     /\ UNCHANGED mr_result
                ELSE /\ mr_pc' = "failed"
                     /\ UNCHANGED <<mr_result, err>>
         ELSE IF ~return_json
         THEN \* return response.content
              /\ mr_pc' = "returned"
              /\ mr_result' = "content"
              /\ UNCHANGED err
         ELSE IF o.json_ok
         THEN \* return response.json()
              /\ mr_pc' = "returned"
              /\ mr_result' = "json"
              /\ UNCHANGED err
         ELSE \* except ValueError (lines 102-106)
              IF attempt = max_retries - 1
                THEN /\ mr_pc' = "raised"
                     /\ err' = InvalidJSONRaised(url)
                     /\ UNCHANGED mr_result
                ELSE /\ mr_pc' = "failed"
                     /\ UNCHANGED <<mr_result, err>>
    /\ UNCHANGED <<url, max_retries, retry_delay, return_json, attempt, sleeps>>
    /\ UNCHANGED <<dbVars, mainVars, parseVars>>

DoRequest == \E o \in Outcomes : Request(o)

\* A mutant of lines 110-114: the next loop iteration without the sleep.
Backoff_NoSleep ==
    /\ mr_pc = "failed"
    /\ attempt < max_retries - 1
    /\ attempt' = attempt + 1
    /\ mr_pc' = "attempt"
    /\ UNCHANGED <<url, max_retries, retry_delay, return_json, response, sleeps,
                   last_outcome, only_retryable, n_requests, mr_result, err>>
    /\ UNCHANGED <<dbVars, mainVars, parseVars>>

\* Lines 110-114 when this was not the last attempt: sleep, then the next
\* loop iteration.
Backoff ==
    /\ mr_pc = "failed"
    /\ attempt < max_retries - 1
    /\ sleeps' = Append(sleeps, sleep_time(retry_delay, attempt))
    /\ attempt' = attempt + 1
    /\ mr_pc' = "attempt"
    /\ UNCHANGED <<url, max_retries, retry_delay, return_json, response,
                   last_outcome, only_retryable, n_requests, mr_result, err>>
    /\ UNCHANGED <<dbVars, mainVars, parseVars>>

\* Lines 110-120 after the last attempt: no sleep, the loop ends and the
\* RequestError of line 117 is raised.
Exhausted ==
    /\ mr_pc = "failed"
    /\ ~(attempt < max_retries - 1)
    /\ mr_pc' = "raised"
    /\ err' = ExhaustedRaised(url)
    /\ UNCHANGED <<url, max_retries, retry_delay, return_json, attempt, response,
                   last_outcome, only_retryable, n_requests, sleeps, mr_result>>
    /\ UNCHANGED <<dbVars, mainVars, parseVars>>

NextHTTP == make_request \/ DoRequest \/ Backoff \/ Exhausted

(***************************************************************************)
(* Part II.  config.py: the columns and the SQL statements                 *)
(***************************************************************************)
NULL == 0               \* SQL NULL in a value column (Python's None as a parameter)
NullId == "NULL"        \* SQL NULL in an id column of the edge table

DoctorUUIDs == {"d1"}
EstablishmentUUIDs == {"e1", "e2"}
\* A version stands for the content of one sighting of an entity: every
\* value column of a record built from sighting v holds v.
Versions == {1, 2}

DOCTOR_COLUMNS ==
    <<"practo_uuid", "slug", "practo_rank", "profile_photo", "profile_url",
      "first_name", "last_name", "qualifications", "specialization",
      "specialties", "experience_years", "summary", "services",
      "services_count", "recommendation_percent", "patients_count",
      "reviews_count">>

ESTABLISHMENT_COLUMNS ==
    <<"practo_uuid", "name", "slug", "practice_type", "profile_url",
      "image_url", "street_address", "postal_code", "locality", "city",
      "state", "latitude", "longitude", "min_price", "max_price", "phone",
      "phone_extension", "rating", "reviews_count", "practice_timings">>

\* The column lists of the two stub statements.
DOCTOR_COLUMNS_SMALL ==
    <<"practo_uuid", "first_name", "last_name", "profile_photo",
      "profile_url", "slug", "experience_years">>

ESTABLISHMENT_COLUMNS_SMALL ==
    <<"practo_uuid", "name", "slug", "profile_url", "city", "state",
      "locality", "latitude", "longitude", "street_address">>

\* The aggregate-count columns, written by the UPDATE statements of
\* insert_relation_data only.
DoctorAggregateColumns == {"establishment_count"}
EstablishmentAggregateColumns ==
    {"doctor_count", "number_of_beds", "number_of_ambulances"}

Range(seq) == {seq[i] : i \in 1..Len(seq)}

DoctorTableColumns == Range(DOCTOR_COLUMNS) \cup DoctorAggregateColumns
EstablishmentTableColumns ==
    Range(ESTABLISHMENT_COLUMNS) \cup EstablishmentAggregateColumns

\* The columns generate_do_update_clause leaves out of DO UPDATE SET.
DoUpdateExcluded ==
    {"practo_uuid", "state", "establishment_count", "doctor_count"}

\* generate_do_update_clause(columns): the columns set to EXCLUDED.col.
generate_do_update_clause(columns) ==
    {columns[i] : i \in {j \in 1..Len(columns) : columns[j] \notin DoUpdateExcluded}}

DOCTOR_DO_UPDATE_CLAUSE == generate_do_update_clause(DOCTOR_COLUMNS)
ESTABLISHMENT_DO_UPDATE_CLAUSE == generate_do_update_clause(ESTABLISHMENT_COLUMNS)

\* The row INSERT INTO t (columns) VALUES (values) proposes: the listed
\* columns take the parameters by position, every other column is NULL.
ProposedRow(tableColumns, columns, values) ==
    [c \in tableColumns |->
        IF \E i \in 1..Len(columns) : columns[i] = c
          THEN values[CHOOSE i \in 1..Len(columns) : columns[i] = c]
          ELSE NULL]

RowsWithUUID(table, uuid) == {r \in table : r["practo_uuid"] = uuid}

Exists(table, uuid) == RowsWithUUID(table, uuid) # {}

\* INSERT ... ON CONFLICT (practo_uuid) DO UPDATE SET <clause>.
InsertOnConflictDoUpdate(table, tableColumns, columns, clause, values) ==
    LET new == ProposedRow(tableColumns, columns, values)
        old == RowsWithUUID(table, new["practo_uuid"])
    IN  IF old = {}
          THEN table \cup {new}
          ELSE (table \ old) \cup
               {[c \in tableColumns |-> IF c \in clause THEN new[c] ELSE r[c]] : r \in old}

\* INSERT ... ON CONFLICT (practo_uuid) DO NOTHING.
InsertOnConflictDoNothing(table, tableColumns, columns, values) ==
    LET new == ProposedRow(tableColumns, columns, values)
    IN  IF Exists(table, new["practo_uuid"]) THEN table ELSE table \cup {new}

\* DOCTOR_INSERT_QUERY and ESTABLISHMENT_INSERT_QUERY.
DOCTOR_INSERT_QUERY(table, values) ==
    InsertOnConflictDoUpdate(table, DoctorTableColumns, DOCTOR_COLUMNS,
                             DOCTOR_DO_UPDATE_CLAUSE, values)

ESTABLISHMENT_INSERT_QUERY(table, values) ==
    InsertOnConflictDoUpdate(table, EstablishmentTableColumns, ESTABLISHMENT_COLUMNS,
                             ESTABLISHMENT_DO_UPDATE_CLAUSE, values)

\* DOCTOR_INSERT_QUERY_SMALL and ESTABLISHMENT_INSERT_QUERY_SMALL.
DOCTOR_INSERT_QUERY_SMALL(table, values) ==
    InsertOnConflictDoNothing(table, DoctorTableColumns, DOCTOR_COLUMNS_SMALL, values)

ESTABLISHMENT_INSERT_QUERY_SMALL(table, values) ==
    InsertOnConflictDoNothing(table, EstablishmentTableColumns,
                              ESTABLISHMENT_COLUMNS_SMALL, values)

\* (SELECT id FROM t WHERE practo_uuid = %s): the id of the row, NULL when
\* there is none.  A row's id is identified with its UUID.
SelectId(table, uuid) == IF Exists(table, uuid) THEN uuid ELSE NullId

\* RELATIONS_INSERT_QUERY: the row it appends, no conflict clause.
RelationRow(doctors, establishments, relation_info) ==
    [doctor_id |-> SelectId(doctors, relation_info.doctor_id),
     establishment_id |-> SelectId(establishments, relation_info.establishment_id),
     timing |-> relation_info.timing]

\* A mutant of RELATIONS_INSERT_QUERY: the statement with a conflict key
\* over the whole row (ON CONFLICT DO NOTHING).
RELATIONS_INSERT_QUERY_Unique(relations, doctors, establishments, relation_info) ==
    IF \E i \in 1..Len(relations) :
          relations[i] = RelationRow(doctors, establishments, relation_info)
      THEN relations
      ELSE Append(relations, RelationRow(doctors, establishments, relation_info))

RELATIONS_INSERT_QUERY(relations, doctors, establishments, relation_info) ==
    Append(relations, RelationRow(doctors, establishments, relation_info))

\* A mutant of the UPDATE: the statement without its WHERE clause.
UpdateWhere_EveryRow(table, uuid, assignments) ==
    {[c \in DOMAIN r |-> IF c \in DOMAIN assignments THEN assignments[c] ELSE r[c]] :
        r \in table}

\* UPDATE t SET col = val, ... WHERE practo_uuid = uuid.
UpdateWhere(table, uuid, assignments) ==
    {IF r["practo_uuid"] = uuid
       THEN [c \in DOMAIN r |-> IF c \in DOMAIN assignments THEN assignments[c] ELSE r[c]]
       ELSE r : r \in table}

\* The two UPDATE statements of insert_relation_data's mapping.
UpdateDoctorCounts(table, uuid, cnt) ==
    UpdateWhere(table, uuid, [c \in {"establishment_count"} |-> cnt])

UpdateEstablishmentCounts(table, uuid, cnt, bed_count, amb_count) ==
    UpdateWhere(table, uuid,
        [c \in EstablishmentAggregateColumns |->
            CASE c = "doctor_count" -> cnt
              [] c = "number_of_beds" -> bed_count
              [] c = "number_of_ambulances" -> amb_count])

(***************************************************************************)
(* Part II.  The payloads the parsers hand to the persistence calls        *)
(***************************************************************************)
\* The record parse_doctors_data / parse_establishment_data builds for one
\* entity, as tuple(value.values()): the id first, then one value per column.
EntityValues(columns, uuid, v) ==
    [i \in 1..Len(columns) |-> IF i = 1 THEN uuid ELSE v]

\* Sequences over S of length lo..hi.
SeqsOf(S, lo, hi) == UNION {[1..n -> S] : n \in lo..hi}

IsInjective(seq) ==
    \A i, j \in 1..Len(seq) : seq[i] = seq[j] => i = j

\* The data dicts insert_main_data can receive: one record per id (a dict has
\* no two equal keys), never empty (parse_and_store_main returns before).
MainBatches(columns, uuids) ==
    {[i \in 1..Len(us) |-> EntityValues(columns, us[i], vs[i])] :
        <<us, vs>> \in {p \in SeqsOf(uuids, 1, MaxBatch) \X SeqsOf(Versions, 1, MaxBatch) :
                          Len(p[1]) = Len(p[2]) /\ IsInjective(p[1])}}

\* What one profile visit reports besides the relations: the content
\* version of the counterpart descriptions, and the counts (the bed and
\* ambulance counts are None when the page has no such element).
ProfileVisits ==
    {[info |-> 1, count |-> 1, bed_count |-> None, amb_count |-> None],
     [info |-> 2, count |-> 2, bed_count |-> 4, amb_count |-> 6]}

\* One value of parse_doctor_establishment_relation's data dict.
DoctorRelationItem(doctor_id, establishment_id, timing, info) ==
    [relation_info |-> [doctor_id |-> doctor_id, establishment_id |-> establishment_id,
                        timing |-> timing],
     establishment_info |-> EntityValues(ESTABLISHMENT_COLUMNS_SMALL, establishment_id, info)]

\* One value of parse_establishment_doctor_relation's data dict.
EstablishmentRelationItem(establishment_id, doctor_id, timing, info) ==
    [relation_info |-> [doctor_id |-> doctor_id, establishment_id |-> establishment_id,
                        timing |-> timing],
     doctor_info |-> EntityValues(DOCTOR_COLUMNS_SMALL, doctor_id, info)]

\* The relation dicts of an owner: one item per (relation, timing), the
\* counterparts in any order and with repetitions; the batch may be empty.
RelationBatches(key, practo_id, info) ==
    IF key = "doctor"
      THEN {[i \in 1..Len(cs) |-> DoctorRelationItem(practo_id, cs[i], i, info)] :
                cs \in SeqsOf(EstablishmentUUIDs, 0, MaxBatch)}
      ELSE {[i \in 1..Len(cs) |-> EstablishmentRelationItem(practo_id, cs[i], i, info)] :
                cs \in SeqsOf(DoctorUUIDs, 0, MaxBatch)}

\* The entity types ("clinic" runs the same statements as "hospital").
Keys == {"doctor", "hospital"}
OwnerUUIDs(key) == IF key = "doctor" THEN DoctorUUIDs ELSE EstablishmentUUIDs

\* How one cur.execute can end: it returns; it raises before anything is
\* sent (a parameter psycopg2 cannot adapt); or the server rejects the
\* statement (psycopg2.DataError and the like), which puts the open
\* transaction in the failed state.
ExecuteOutcomes == {"ok", "client_error", "server_error"}

(***************************************************************************)
(* Part II.  db/insert_db.py                                               *)
(***************************************************************************)
NoCall == [op |-> "none"]

\* The stores a run can start from.  EmptyStore is the store init_db leaves.
\* VisitedStore is what an earlier run leaves that listed d1 and e1 (content
\* version 1), visited e1 (no relation with a timing, counts 2, 4, 6) and
\* visited d1 (one relation with one timing at e2, which was not listed:
\* a stub row; count 1).
EmptyStore == [doctors |-> {}, establishments |-> {}, relations |-> <<>>]

VisitedStore ==
    LET listedD == DOCTOR_INSERT_QUERY({}, EntityValues(DOCTOR_COLUMNS, "d1", 1))
        listedE == ESTABLISHMENT_INSERT_QUERY({},
                        EntityValues(ESTABLISHMENT_COLUMNS, "e1", 1))
        visitedE == UpdateEstablishmentCounts(listedE, "e1", 2, 4, 6)
        visitedD == UpdateDoctorCounts(listedD, "d1", 1)
        item == DoctorRelationItem("d1", "e2", 1, 1)
        stubbedE == ESTABLISHMENT_INSERT_QUERY_SMALL(visitedE, item.establishment_info)
    IN  [doctors |-> visitedD,
         establishments |-> stubbedE,
         relations |-> RELATIONS_INSERT_QUERY(<<>>, visitedD, stubbedE, item.relation_info)]

InitialStores == {EmptyStore, VisitedStore}

\* The schema of the edge table (db/mapping.sql, which init_db executes):
\* two id columns that reference the rows of the two entity tables; no NOT
\* NULL constraint is stated for them, so a row may hold NULL in either.
EdgeIdColumnsNotNull == FALSE

InitDB ==
    /\ \E s \in InitialStores :
        /\ practo_doctors = s.doctors
        /\ practo_establishments = s.establishments
        /\ practo_doctor_establishment = s.relations
        /\ tx_doctors = s.doctors
        /\ tx_establishments = s.establishments
        /\ tx_relations = s.relations
    /\ schema_not_null = EdgeIdColumnsNotNull
    /\ db_pc = "idle"
    /\ conn_open = 0
    /\ tx_aborted = FALSE
    /\ batch = <<>>
    /\ doctor_exists = FALSE
    /\ establishment_exists = FALSE
    /\ call = NoCall
    /\ item_log = <<>>
    /\ stub_log = <<>>
    /\ db_raised = "none"
    /\ n_calls = 0

store == <<practo_doctors, practo_establishments, practo_doctor_establishment>>
txView == <<tx_doctors, tx_establishments, tx_relations>>
locals == <<doctor_exists, establishment_exists>>

\* conn = connect_db(); cur = conn.cursor(): the transaction starts from the
\* committed rows.
Connect ==
    /\ conn_open' = conn_open + 1
    /\ tx_doctors' = practo_doctors
    /\ tx_establishments' = practo_establishments
    /\ tx_relations' = practo_doctor_establishment
    /\ tx_aborted' = FALSE

\* connect_db() raises DatabaseError inside the try block: `conn` is never
\* bound, so `if conn:` in the except clause raises UnboundLocalError, which
\* is what leaves the function (the finally clause finds nothing to close).
ConnectFails ==
    /\ db_pc' = "idle"
    /\ db_raised' = "UnboundLocalError"
    /\ batch' = <<>>
    /\ item_log' = <<>>
    /\ stub_log' = <<>>
    /\ n_calls' = n_calls + 1
    /\ UNCHANGED <<store, txView, tx_aborted, conn_open, locals>>

\* The effect of conn.commit(): the rows of the transaction become the
\* committed rows, unless the transaction is in the failed state, when the
\* server answers COMMIT with a rollback (and psycopg2 raises nothing).
Committed(aborted, committedRows, txRows) ==
    IF aborted THEN committedRows ELSE txRows

\* A mutant of the finally clause: cur.close() without conn.close(), the
\* connection being left to the garbage collector.
CommitAndClose_WithoutClose ==
    /\ practo_doctors' = Committed(tx_aborted, practo_doctors, tx_doctors)
    /\ practo_establishments' =
           Committed(tx_aborted, practo_establishments, tx_establishments)
    /\ practo_doctor_establishment' =
           Committed(tx_aborted, practo_doctor_establishment, tx_relations)
    /\ tx_doctors' = practo_doctors'
    /\ tx_establishments' = practo_establishments'
    /\ tx_relations' = practo_doctor_establishment'
    /\ tx_aborted' = FALSE
    /\ db_pc' = "idle"
    /\ db_raised' = "none"
    /\ n_calls' = n_calls + 1
    /\ UNCHANGED <<conn_open, batch, locals, call, item_log, stub_log>>

\* conn.commit(), then the finally clause: cur.close(), conn.close().  With
\* the connection closed nothing is left of the transaction or of the locals.
CommitAndClose ==
    /\ practo_doctors' = Committed(tx_aborted, practo_doctors, tx_doctors)
    /\ practo_establishments' =
           Committed(tx_aborted, practo_establishments, tx_establishments)
    /\ practo_doctor_establishment' =
           Committed(tx_aborted, practo_doctor_establishment, tx_relations)
    /\ tx_doctors' = practo_doctors'
    /\ tx_establishments' = practo_establishments'
    /\ tx_relations' = practo_doctor_establishment'
    /\ tx_aborted' = FALSE
    /\ conn_open' = conn_open - 1
    /\ db_pc' = "idle"
    /\ db_raised' = "none"
    /\ n_calls' = n_calls + 1
    /\ UNCHANGED <<batch, locals, call, item_log, stub_log>>

\* A mutant of the rollback: a connection in autocommit mode, where the
\* statements took effect one by one and there is nothing to roll back.
RolledBack_Autocommit(committedRows, txRows) == txRows

\* conn.rollback(), or conn.close() with no commit: the rows of the
\* transaction are discarded.
RolledBack(committedRows, txRows) == committedRows

\* The call ends after the connection was opened and without a commit:
\* conn.commit() raises (lines 177 and 230: the outer except clause rolls
\* back and raises DatabaseError), or a KeyboardInterrupt arrives at any
\* statement (no except clause of the module matches it; the finally clause
\* closes the connection).
CallAborts ==
    /\ db_pc \in {"main_loop", "rel_loop", "rel_stub", "rel_edge"}
    /\ \E exception \in {"DatabaseError", "KeyboardInterrupt"} :
          /\ exception = "DatabaseError" =>
                (batch = <<>> /\ db_pc \in {"main_loop", "rel_loop"})
          /\ db_raised' = exception
    /\ practo_doctors' = RolledBack(practo_doctors, tx_doctors)
    /\ practo_establishments' = RolledBack(practo_establishments, tx_establishments)
    /\ practo_doctor_establishment' =
           RolledBack(practo_doctor_establishment, tx_relations)
    /\ tx_doctors' = practo_doctors'
    /\ tx_establishments' = practo_establishments'
    /\ tx_relations' = practo_doctor_establishment'
    /\ tx_aborted' = FALSE
    /\ conn_open' = conn_open - 1
    /\ db_pc' = "idle"
    /\ batch' = <<>>
    /\ doctor_exists' = FALSE
    /\ establishment_exists' = FALSE
    /\ n_calls' = n_calls + 1
    /\ UNCHANGED <<call, item_log, stub_log, schema_not_null,
                   httpVars, mainVars, parseVars>>

\* execute_query(query, params, fetch_one=True) with the existence check as
\* its query (lines 55-59): conn and cur start as None; connect_db() raises
\* DatabaseError, which the last except clause wraps in a DatabaseError
\* (`if conn:` finds None), or the connection is open.
execute_query ==
    /\ db_pc = "idle"
    /\ n_calls < MaxCalls
    /\ call' = [op |-> "execute_query", query |-> "CHECK_EXISTENCE_QUERY"]
    /\ batch' = <<>>
    /\ item_log' = <<>>
    /\ stub_log' = <<>>
    /\ \/ /\ Connect
          /\ db_pc' = "query"
          /\ db_raised' = "none"
          /\ UNCHANGED n_calls
       \/ /\ db_pc' = "idle"
          /\ db_raised' = "DatabaseError"
          /\ n_calls' = n_calls + 1
          /\ UNCHANGED <<txView, tx_aborted, conn_open>>
    /\ UNCHANGED <<store, locals, schema_not_null, httpVars, mainVars, parseVars>>

\* Lines 65-103: the statement runs and the transaction is committed, or
\* the statement fails, the except clause rolls back and raises
\* DatabaseError; the finally clause closes the connection either way.
ExecuteQueryDone ==
    /\ db_pc = "query"
    /\ \E outcome \in {"ok", "server_error"} :
          /\ db_raised' = IF outcome = "ok" THEN "none" ELSE "DatabaseError"
          /\ practo_doctors' =
                IF outcome = "ok" THEN Committed(FALSE, practo_doctors, tx_doctors)
                ELSE RolledBack(practo_doctors, tx_doctors)
    /\ tx_doctors' = practo_doctors'
    /\ conn_open' = conn_open - 1
    /\ db_pc' = "idle"
    /\ n_calls' = n_calls + 1
    /\ UNCHANGED <<practo_establishments, practo_doctor_establishment,
                   tx_establishments, tx_relations, tx_aborted, batch, locals,
                   call, item_log, stub_log, schema_not_null,
                   httpVars, mainVars, parseVars>>

\* The statements of the current call that failed of their own so far.
Faults ==
    Cardinality({i \in 1..Len(item_log) : item_log[i] = "client_error"})
        + (IF tx_aborted THEN 1 ELSE 0)

\* A statement sent in a failed transaction is rejected by the server;
\* otherwise it succeeds or fails of its own.
OutcomeAllowed(outcome) ==
    IF tx_aborted THEN outcome = "server_error"
    ELSE outcome = "ok" \/ Faults < MaxFaults

\* The rows the transaction sees after a statement has ended as `outcome`
\* without changing them: a failed transaction has lost its changes for
\* good (nothing can read them any more and COMMIT will discard them).
AfterFailure(outcome, committedRows, txRows) ==
    IF outcome = "server_error" THEN committedRows ELSE txRows

\* The except clause of an item: the item is logged and skipped.
ItemFails(outcome) ==
    /\ tx_aborted' = (tx_aborted \/ outcome = "server_error")
    /\ tx_doctors' = AfterFailure(outcome, practo_doctors, tx_doctors)
    /\ tx_establishments' = AfterFailure(outcome, practo_establishments, tx_establishments)
    /\ tx_relations' = AfterFailure(outcome, practo_doctor_establishment, tx_relations)
    /\ item_log' = Append(item_log, outcome)
    /\ batch' = Tail(batch)
    /\ doctor_exists' = FALSE
    /\ establishment_exists' = FALSE

\* ---- insert_main_data(data, query) ----

\* The statement `query` names, run on a table with one record's values.
MainQuery(query, table, values) ==
    IF query = "DOCTOR_INSERT_QUERY"
      THEN DOCTOR_INSERT_QUERY(table, values)
      ELSE ESTABLISHMENT_INSERT_QUERY(table, values)

\* Lines 202-210: the call, up to the loop.
insert_main_data ==
    /\ db_pc = "idle"
    /\ n_calls < MaxCalls
    /\ \E query \in {"DOCTOR_INSERT_QUERY", "ESTABLISHMENT_INSERT_QUERY"} :
         \E data \in (IF query = "DOCTOR_INSERT_QUERY"
                        THEN MainBatches(DOCTOR_COLUMNS, DoctorUUIDs)
                        ELSE MainBatches(ESTABLISHMENT_COLUMNS, EstablishmentUUIDs)) :
            /\ call' = [op |-> "insert_main_data", query |-> query, data |-> data]
            /\ \/ /\ Connect
                  /\ batch' = data
                  /\ item_log' = <<>>
                  /\ stub_log' = <<>>
                  /\ db_pc' = "main_loop"
                  /\ db_raised' = "none"
                  /\ UNCHANGED <<store, locals, n_calls>>
               \/ ConnectFails
    /\ UNCHANGED <<schema_not_null, httpVars, mainVars, parseVars>>

\* Lines 212-228: one iteration of the loop, cur.execute(query, ...) ending
\* as `outcome`.
MainExecute(outcome) ==
    /\ db_pc = "main_loop"
    /\ batch # <<>>
    /\ OutcomeAllowed(outcome)
    /\ IF outcome = "ok"
         THEN /\ IF call.query = "DOCTOR_INSERT_QUERY"
                   THEN /\ tx_doctors' = MainQuery(call.query, tx_doctors, Head(batch))
                        /\ UNCHANGED tx_establishments
                   ELSE /\ tx_establishments' =
                               MainQuery(call.query, tx_establishments, Head(batch))
                        /\ UNCHANGED tx_doctors
              /\ item_log' = Append(item_log, "ok")
              /\ batch' = Tail(batch)
              /\ UNCHANGED <<tx_aborted, locals>>
              /\ UNCHANGED tx_relations
         ELSE ItemFails(outcome)
    /\ UNCHANGED <<store, schema_not_null, db_pc, conn_open, call,
                   stub_log, db_raised, n_calls, httpVars, mainVars, parseVars>>

MainItem == \E outcome \in ExecuteOutcomes : MainExecute(outcome)

\* Lines 230-242: the loop is over; commit and close.
MainCommit ==
    /\ db_pc = "main_loop"
    /\ batch = <<>>
    /\ CommitAndClose
    /\ UNCHANGED <<schema_not_null, httpVars, mainVars, parseVars>>

\* ---- insert_relation_data(relation, count, bed_count, amb_count, practo_id, key) ----

HasDoctorInfo(value) == "doctor_info" \in DOMAIN value
HasEstablishmentInfo(value) == "establishment_info" \in DOMAIN value

\* A mutant of lines 152-166: the two tests without their `not`.
StubBranch_WithoutNot(value, d_exists, e_exists) ==
    IF d_exists /\ HasDoctorInfo(value) THEN "doctor"
    ELSE IF e_exists /\ HasEstablishmentInfo(value) THEN "establishment"
    ELSE "none"

\* Lines 152-166: which stub statement an item runs, given the two flags
\* of the existence check: "doctor", "establishment" or "none".
StubBranch(value, d_exists, e_exists) ==
    IF ~d_exists /\ HasDoctorInfo(value) THEN "doctor"
    ELSE IF ~e_exists /\ HasEstablishmentInfo(value) THEN "establishment"
    ELSE "none"

\* The edge table rejects a row whose doctor_id or establishment_id is
\* NULL when the schema declares the two columns NOT NULL.
NotNullViolation(row) ==
    schema_not_null /\ (row.doctor_id = NullId \/ row.establishment_id = NullId)

\* Lines 126-138: the call, the connection and the UPDATE of the owner's
\* aggregate counts.  The UPDATE can be rejected by the server (a bed count
\* that is no number): the outer except clause rolls back and raises
\* DatabaseError.
insert_relation_data ==
    /\ db_pc = "idle"
    /\ n_calls < MaxCalls
    /\ \E key \in Keys :
         \E practo_id \in OwnerUUIDs(key), visit \in ProfileVisits :
           \E relation \in RelationBatches(key, practo_id, visit.info) :
            /\ call' = [op |-> "insert_relation_data", key |-> key,
                        practo_id |-> practo_id, relation |-> relation,
                        count |-> visit.count,
                        bed_count |-> IF key = "doctor" THEN 0 ELSE visit.bed_count,
                        amb_count |-> IF key = "doctor" THEN 0 ELSE visit.amb_count]
            /\ \/ /\ conn_open' = conn_open + 1
                  /\ tx_doctors' =
                        IF key = "doctor"
                          THEN UpdateDoctorCounts(practo_doctors, practo_id, visit.count)
                          ELSE practo_doctors
                  /\ tx_establishments' =
                        IF key = "doctor"
                          THEN practo_establishments
                          ELSE UpdateEstablishmentCounts(practo_establishments, practo_id,
                                    visit.count, visit.bed_count, visit.amb_count)
                  /\ tx_relations' = practo_doctor_establishment
                  /\ tx_aborted' = FALSE
                  /\ batch' = relation
                  /\ item_log' = <<>>
                  /\ stub_log' = <<>>
                  /\ db_pc' = "rel_loop"
                  /\ db_raised' = "none"
                  /\ UNCHANGED <<store, locals, n_calls>>
               \/ /\ key # "doctor"
                  /\ visit.bed_count # None
                  /\ db_pc' = "idle"
                  /\ db_raised' = "DatabaseError"
                  /\ batch' = <<>>
                  /\ item_log' = <<>>
                  /\ stub_log' = <<>>
                  /\ n_calls' = n_calls + 1
                  /\ UNCHANGED <<store, txView, tx_aborted, conn_open, locals>>
               \/ ConnectFails
    /\ UNCHANGED <<schema_not_null, httpVars, mainVars, parseVars>>

\* Lines 143-149: the existence check of the item at the head of the batch.
\* Its two parameters are strings, so it fails on the server or not at all.
RelCheck(outcome) ==
    /\ db_pc = "rel_loop"
    /\ batch # <<>>
    /\ outcome \in {"ok", "server_error"}
    /\ OutcomeAllowed(outcome)
    /\ IF outcome = "ok"
         THEN /\ doctor_exists' = Exists(tx_doctors, Head(batch).relation_info.doctor_id)
              /\ establishment_exists' =
                     Exists(tx_establishments, Head(batch).relation_info.establishment_id)
              /\ db_pc' = "rel_stub"
              /\ UNCHANGED <<tx_aborted, batch, item_log, txView>>
         ELSE /\ ItemFails(outcome)
              /\ UNCHANGED db_pc
    /\ UNCHANGED <<store, schema_not_null, conn_open, call, stub_log,
                   db_raised, n_calls, httpVars, mainVars, parseVars>>

\* What lines 152-166 do to the two entity tables when the stub statement
\* they choose succeeds.
StubDoctors(value, d_exists, e_exists, doctors) ==
    IF StubBranch(value, d_exists, e_exists) = "doctor"
      THEN DOCTOR_INSERT_QUERY_SMALL(doctors, value.doctor_info)
      ELSE doctors

\* A mutant of lines 159-166: the stub statement run for every item that
\* describes an establishment, as an upsert of the columns it lists.
StubEstablishments_Upsert(value, d_exists, e_exists, establishments) ==
    IF HasEstablishmentInfo(value)
      THEN InsertOnConflictDoUpdate(establishments, EstablishmentTableColumns,
               ESTABLISHMENT_COLUMNS_SMALL,
               Range(ESTABLISHMENT_COLUMNS_SMALL) \ {"practo_uuid"},
               value.establishment_info)
      ELSE establishments

StubEstablishments(value, d_exists, e_exists, establishments) ==
    IF StubBranch(value, d_exists, e_exists) = "establishment"
      THEN ESTABLISHMENT_INSERT_QUERY_SMALL(establishments, value.establishment_info)
      ELSE establishments

\* Lines 151-166: the stub insert of the item, if a branch is taken.
RelStub(outcome) ==
    /\ db_pc = "rel_stub"
    /\ LET value == Head(batch)
           branch == StubBranch(value, doctor_exists, establishment_exists)
       IN  /\ IF branch = "none" THEN outcome = "ok" ELSE OutcomeAllowed(outcome)
           /\ IF outcome = "ok"
                THEN /\ tx_doctors' =
                           StubDoctors(value, doctor_exists, establishment_exists, tx_doctors)
                     /\ tx_establishments' =
                           StubEstablishments(value, doctor_exists, establishment_exists,
                                              tx_establishments)
                     /\ stub_log' =
                           IF branch = "doctor"
                             THEN Append(stub_log, value.doctor_info[1])
                           ELSE IF branch = "establishment"
                             THEN Append(stub_log, value.establishment_info[1])
                           ELSE stub_log
                     /\ db_pc' = "rel_edge"
                     /\ UNCHANGED <<tx_aborted, batch, item_log, locals, tx_relations>>
                ELSE /\ ItemFails(outcome)
                     /\ db_pc' = "rel_loop"
                     /\ UNCHANGED stub_log
    /\ UNCHANGED <<store, schema_not_null, conn_open, call,
                   db_raised, n_calls, httpVars, mainVars, parseVars>>

\* Lines 168-170: the edge insert of the item.
RelEdge(outcome) ==
    /\ db_pc = "rel_edge"
    /\ OutcomeAllowed(outcome)
    /\ LET value == Head(batch)
           row == RelationRow(tx_doctors, tx_establishments, value.relation_info)
       IN  /\ NotNullViolation(row) => outcome = "server_error"
           /\ IF outcome = "ok"
                THEN /\ tx_relations' =
                           RELATIONS_INSERT_QUERY(tx_relations, tx_doctors,
                                                  tx_establishments, value.relation_info)
                     /\ item_log' = Append(item_log, "ok")
                     /\ batch' = Tail(batch)
                     /\ doctor_exists' = FALSE
                     /\ establishment_exists' = FALSE
                     /\ UNCHANGED <<tx_aborted, tx_doctors, tx_establishments>>
                ELSE ItemFails(outcome)
    /\ db_pc' = "rel_loop"
    /\ UNCHANGED <<store, schema_not_null, conn_open,
                   call, stub_log, db_raised, n_calls, httpVars, mainVars, parseVars>>

RelCheckItem == \E outcome \in ExecuteOutcomes : RelCheck(outcome)
RelStubItem == \E outcome \in ExecuteOutcomes : RelStub(outcome)
RelEdgeItem == \E outcome \in ExecuteOutcomes : RelEdge(outcome)

\* Lines 177-189: the loop is over; commit and close.
RelCommit ==
    /\ db_pc = "rel_loop"
    /\ batch = <<>>
    /\ CommitAndClose
    /\ UNCHANGED <<schema_not_null, httpVars, mainVars, parseVars>>

(***************************************************************************)
(* Part III.  main.py: the traversal                                       *)
(***************************************************************************)
MaxPages == 6           \* most pages of one seed URL
MaxProfiles == 2        \* most entities of one listing page

Running == -1           \* exit_status while the process runs

\* A URL is the sequence of its pieces; the decimal digits are pieces of
\* their own.  The two templates of config.py, filled in (the clinic
\* template has the shape of the hospital one).
DOCTORS_URL ==
    <<"provider-seo/v2/?", "url_path=x", "&", "page=", "1", "&",
      "placement=DOCTOR_SEARCH", "&", "is_procedure_cost_", "page=", "false">>
HOSPITALS_URL ==
    <<"hospital-seo/v2?", "city=x", "&", "placement=HOSPITAL_SEARCH", "&",
      "page=", "1">>

\* The contents of urls.txt considered: no seed URL, one, two.
SeedFiles == {<<>>, <<HOSPITALS_URL>>, <<DOCTORS_URL, HOSPITALS_URL>>}

\* "DOCTOR_SEARCH" in link
IsDoctorSearch(u) == \E i \in 1..Len(u) : u[i] = "placement=DOCTOR_SEARCH"

DigitChars == <<"0", "1", "2", "3", "4", "5", "6", "7", "8", "9">>

\* str(n) for n >= 0, as in the f-string f"page={page}".
RECURSIVE Str(_)
Str(n) ==
    IF n < 10 THEN <<DigitChars[n + 1]>>
    ELSE Str(n \div 10) \o <<DigitChars[(n % 10) + 1]>>

\* s.replace(old, new): every non-overlapping occurrence, left to right.
RECURSIVE Replace(_, _, _)
Replace(s, old, new) ==
    IF Len(s) < Len(old) THEN s
    ELSE IF SubSeq(s, 1, Len(old)) = old
      THEN new \o Replace(SubSeq(s, Len(old) + 1, Len(s)), old, new)
      ELSE <<Head(s)>> \o Replace(Tail(s), old, new)

\* Line 150: link.replace("page=1", f"page={page}").
PageUrl(u, p) == Replace(u, <<"page=", "1">>, <<"page=">> \o Str(p))

\* A mutant of line 147: the pages needed for `count` results.
TotalPages_Ceiling(c) == (c + 9) \div 10

\* Line 147: total_pages = (count // 10) + 1.
TotalPages(c) == (c \div 10) + 1

\* Line 154: page > 1 and page % 5 == 0.
PacingDue(p) == p > 1 /\ p % 5 = 0

\* Line 155: time.sleep(3).
PacingSeconds == 3

\* The body of a seed URL's response, as far as lines 128-133 read it: the
\* count field ("absent", "invalid": no integer literal, or "number" with
\* its value) and form.results_type.
SeedBodies ==
    {[count_field |-> f, value |-> 0, results_type |-> "hospital"] :
        f \in {"absent", "invalid"}}
    \cup {[count_field |-> "number", value |-> v, results_type |-> "hospital"] :
        v \in {0, 9, 10, 25, 10 * (MaxPages - 1)}}
NoBody == [count_field |-> "unbound", value |-> 0, results_type |-> "unbound"]

\* Lines 128-133: int(response.get(...).get(<count field>, 0)); the result
\* is [raised, value].
ParsedCount(body) ==
    CASE body.count_field = "absent" -> [raised |-> "none", value |-> 0]
      [] body.count_field = "invalid" -> [raised |-> "ValueError", value |-> 0]
      [] OTHER -> [raised |-> "none", value |-> body.value]

\* A mutant of line 137: no URL is skipped.
IsZeroCount_Never(c) == FALSE

\* Line 137: count == 0.
IsZeroCount(c) == c = 0

\* The body of a listing page, as far as lines 167-173 and the parsers
\* read it: form.results_type ("none" when absent) and the top-level entity
\* collection of that type: "absent", "null" (present, no mapping),
\* "garbage" (entities of which one has a list in a numeric field) or
\* "present", with the number of its entities.
PageBodies ==
    {[results_type |-> t, collection |-> c, entities |-> 0] :
        t \in {"none", "doctor", "hospital"}, c \in {"absent", "null", "garbage"}}
    \cup {[results_type |-> t, collection |-> "present", entities |-> n] :
        t \in {"none", "doctor", "hospital"}, n \in 0..MaxProfiles}
NoPage == [results_type |-> "unbound", collection |-> "unbound", entities |-> 0]

\* parse_doctors_data / parse_establishment_data: the exception raised or
\* the number of records returned.  response.get(<collection>, {}) makes an
\* absent collection an empty one; a null one has no .get (AttributeError);
\* clean_numeric raises TypeError on a list.
parse_listing(body) ==
    CASE body.collection = "absent" -> [raised |-> "none", entities |-> 0]
      [] body.collection = "null" -> [raised |-> "AttributeError", entities |-> 0]
      [] body.collection = "garbage" -> [raised |-> "TypeError", entities |-> 0]
      [] OTHER -> [raised |-> "none", entities |-> body.entities]

InitMain ==
    /\ main_pc = "start"
    /\ exit_status = Running
    /\ urls = <<>>
    /\ url_index = 0
    /\ link = <<>>
    /\ seed_response = NoBody
    /\ count = 0
    /\ result_type = "unbound"
    /\ total_pages = 0
    /\ page = 0
    /\ page_url = <<>>
    /\ page_response = NoPage
    /\ profile = <<>>
    /\ success_count = 0
    /\ error_count = 0
    /\ page_log = <<>>
    /\ pause_log = <<>>
    /\ seed_calls = [profile_fetched |-> FALSE, persisted |-> FALSE]
    /\ run_effects = [requested |-> FALSE, persisted |-> FALSE]
    /\ step_outcome = "none"

otherVars == <<httpVars, dbVars, parseVars>>

\* A mutant of lines 93, 102 and 105: the process ends with status 0.
sys_exit_Zero(status) ==
    /\ main_pc' = "exited"
    /\ exit_status' = 0

\* sys.exit(status)
sys_exit(status) ==
    /\ main_pc' = "exited"
    /\ exit_status' = status

\* Lines 88-93: init_db() returns or raises.
InitDbStep ==
    /\ main_pc = "start"
    /\ \E outcome \in {"ok", "psycopg2.Error"} :
          /\ step_outcome' = outcome
          /\ IF outcome = "ok"
               THEN /\ main_pc' = "load_urls"
                    /\ UNCHANGED exit_status
               ELSE sys_exit(1)
    /\ UNCHANGED <<urls, url_index, link, seed_response, count, result_type,
                   total_pages, page, page_url, page_response, profile,
                   success_count, error_count, page_log, pause_log, seed_calls,
                   run_effects, otherVars>>

\* Lines 95-105: urls.txt is read, or open() / readlines() raises.
LoadUrls ==
    /\ main_pc = "load_urls"
    /\ \E outcome \in {"ok", "FileNotFoundError", "OSError"} :
          /\ step_outcome' = outcome
          /\ IF outcome = "ok"
               THEN /\ \E file \in SeedFiles : urls' = file
                    /\ main_pc' = "next_url"
                    /\ UNCHANGED exit_status
               ELSE /\ sys_exit(1)
                    /\ UNCHANGED urls
    /\ UNCHANGED <<url_index, link, seed_response, count, result_type,
                   total_pages, page, page_url, page_response, profile,
                   success_count, error_count, page_log, pause_log, seed_calls,
                   run_effects, otherVars>>

\* A mutant of the `continue` statements of lines 124, 139 and 142 and of
\* the end of the loop body: `return`.
SeedOver_Return ==
    /\ main_pc' = "completed"
    /\ count' = 0
    /\ result_type' = "unbound"
    /\ total_pages' = 0
    /\ page' = 0

\* `continue` in the body of the for loop of line 115, or its end: the
\* for loop goes on.  Nothing reads the seed URL's count, entity type or
\* page variables again before they are set anew: they are put back to
\* their initial values.
SeedOver ==
    /\ main_pc' = "next_url"
    /\ count' = 0
    /\ result_type' = "unbound"
    /\ total_pages' = 0
    /\ page' = 0

\* Line 115: the for loop takes the next seed URL (url_index counts the
\* seed URLs taken so far).
NextUrl ==
    /\ main_pc = "next_url"
    /\ url_index < Len(urls)
    /\ url_index' = url_index + 1
    /\ link' = urls[url_index + 1]
    /\ main_pc' = "seed_fetch"
    /\ page_log' = <<>>
    /\ pause_log' = <<>>
    /\ seed_calls' = [profile_fetched |-> FALSE, persisted |-> FALSE]
    /\ seed_response' = NoBody
    /\ step_outcome' = "none"
    /\ UNCHANGED <<exit_status, urls, count, result_type,
                   total_pages, page, page_url, page_response, profile,
                   success_count, error_count, run_effects, otherVars>>

\* Line 211: the for loop is over; main() returns and the process ends.
Completed ==
    /\ main_pc = "next_url"
    /\ url_index = Len(urls)
    /\ main_pc' = "completed"
    /\ exit_status' = 0
    /\ step_outcome' = "none"
    /\ UNCHANGED <<urls, url_index, link, seed_response, count, result_type,
                   total_pages, page, page_url, page_response, profile,
                   success_count, error_count, page_log, pause_log, seed_calls,
                   run_effects, otherVars>>

\* Lines 119-124: response = make_request(link).
SeedFetch ==
    \E outcome \in {"ok", "RequestError"} :
    /\ main_pc = "seed_fetch"
    /\ step_outcome' = outcome
    /\ run_effects' = [run_effects EXCEPT !.requested = TRUE]
    /\ IF outcome = "ok"
         THEN /\ \E body \in SeedBodies : seed_response' = body
              /\ main_pc' = "count"
              /\ UNCHANGED <<count, result_type, total_pages, page>>
         ELSE SeedOver /\ UNCHANGED seed_response
    /\ UNCHANGED <<exit_status, urls, url_index, link, page_url, page_response,
                   profile, success_count, error_count, page_log, pause_log,
                   seed_calls, otherVars>>

\* Lines 126-147: the result count; a zero count and a count that cannot
\* be read both `continue`; otherwise the counters and total_pages are set
\* and the page loop starts.
DetermineCount ==
    /\ main_pc = "count"
    /\ step_outcome' = "none"
    /\ LET parsed == ParsedCount(seed_response)
       IN  IF parsed.raised # "none" \/ IsZeroCount(parsed.value)
             THEN /\ SeedOver
                  /\ UNCHANGED <<seed_response, success_count, error_count>>
             ELSE /\ main_pc' = "page_begin"
                  /\ count' = parsed.value
                  /\ result_type' = IF IsDoctorSearch(link) THEN "doctor"
                                    ELSE seed_response.results_type
                  /\ success_count' = 0
                  /\ error_count' = 0
                  /\ total_pages' = TotalPages(parsed.value)
                  /\ page' = 1
                  /\ seed_response' = NoBody
    /\ UNCHANGED <<exit_status, urls, url_index, link, page_url,
                   page_response, profile, page_log, pause_log, seed_calls,
                   run_effects, otherVars>>

\* Lines 149-155: the page loop takes the next page: the page URL, and the
\* pacing pause when it is due.
PageBegin ==
    /\ main_pc = "page_begin"
    /\ page <= total_pages
    /\ page_url' = PageUrl(link, page)
    /\ pause_log' =
          IF PacingDue(page)
            THEN Append(pause_log, [pages_fetched |-> Len(page_log),
                                    seconds |-> PacingSeconds])
            ELSE pause_log
    /\ main_pc' = "page_fetch"
    /\ step_outcome' = "none"
    /\ UNCHANGED <<exit_status, urls, url_index, link, seed_response, count,
                   result_type, total_pages, page, page_response, profile,
                   success_count, error_count, page_log, seed_calls,
                   run_effects, otherVars>>

\* Line 205: the page loop is over and the counters are logged; they are
\* not read again before lines 145-146 set them anew.
SeedDone ==
    /\ main_pc = "page_begin"
    /\ page > total_pages
    /\ SeedOver
    /\ step_outcome' = "none"
    /\ success_count' = 0
    /\ error_count' = 0
    /\ page_url' = <<>>
    /\ UNCHANGED <<exit_status, urls, url_index, link, seed_response, page_response,
                   profile, page_log, pause_log, seed_calls, run_effects,
                   otherVars>>

\* `continue`, or the end of the page's body: the page loop goes on with
\* the next page.  The page's body, its entity type and its
\* ProfileReferences are not read again before they are set anew.
NextPage ==
    /\ page' = page + 1
    /\ main_pc' = "page_begin"
    /\ page_response' = NoPage
    /\ result_type' = "unbound"
    /\ profile' = <<>>

\* Lines 159-164: page_response = make_request(page_url).
PageFetch ==
    \E outcome \in {"ok", "RequestError"} :
    /\ main_pc = "page_fetch"
    /\ step_outcome' = outcome
    /\ page_log' = Append(page_log, page_url)
    /\ run_effects' = [run_effects EXCEPT !.requested = TRUE]
    /\ IF outcome = "ok"
         THEN /\ \E body \in PageBodies : page_response' = body
              /\ main_pc' = "page_type"
              /\ UNCHANGED <<page, profile, error_count, result_type>>
         ELSE /\ error_count' = error_count + 1
              /\ NextPage
    /\ UNCHANGED <<exit_status, urls, url_index, link, seed_response, count,
                   total_pages, page_url, success_count,
                   pause_log, seed_calls, otherVars>>

\* Lines 166-170: the entity type of the page; without one, `continue`.
PageType ==
    /\ main_pc = "page_type"
    /\ step_outcome' = "none"
    /\ IF page_response.results_type = "none"
         THEN NextPage
         ELSE /\ result_type' = page_response.results_type
              /\ main_pc' = "page_main"
              /\ UNCHANGED <<page, page_response, profile>>
    /\ UNCHANGED <<exit_status, urls, url_index, link, seed_response, count,
                   total_pages, page_url, success_count, error_count,
                   page_log, pause_log, seed_calls, run_effects, otherVars>>

\* Line 173 with parse_and_store_main (lines 65-81) and the except clauses
\* of lines 197-203: the page is parsed; no record: no ProfileReference;
\* else insert_main_data(data, query) ends as `outcome`.  Whatever is
\* raised is counted and the page is over.  The body is not read again.
PageMain ==
    \E outcome \in {"ok", "DatabaseError", "UnboundLocalError"} :
    /\ main_pc = "page_main"
    /\ LET parsed == parse_listing(page_response)
       IN  IF parsed.raised # "none"
             THEN /\ outcome = "ok"
                  /\ step_outcome' = IF parsed.raised \in {"KeyError", "TypeError"}
                                      THEN "ValueError" ELSE parsed.raised
                  /\ error_count' = error_count + 1
                  /\ NextPage
                  /\ UNCHANGED <<seed_calls, run_effects>>
           ELSE IF parsed.entities = 0
             THEN /\ outcome = "ok"
                  /\ step_outcome' = "none"
                  /\ NextPage
                  /\ UNCHANGED <<error_count, seed_calls, run_effects>>
             ELSE /\ seed_calls' = [seed_calls EXCEPT !.persisted = TRUE]
                  /\ run_effects' = [run_effects EXCEPT !.persisted = TRUE]
                  /\ step_outcome' = outcome
                  /\ IF outcome = "ok"
                       THEN /\ profile' = [i \in 1..parsed.entities |-> i]
                            /\ main_pc' = "profile_json"
                            /\ page_response' = NoPage
                            /\ UNCHANGED <<page, result_type, error_count>>
                       ELSE /\ error_count' = error_count + 1
                            /\ NextPage
    /\ UNCHANGED <<exit_status, urls, url_index, link, seed_response, count,
                   total_pages, page_url, success_count,
                   page_log, pause_log, otherVars>>

\* A mutant of the except clauses of lines 190-195: `break` for the fall
\* through to the next ProfileReference.
NextProfile_Break == NextPage

\* The for loop of line 176 goes on: the next ProfileReference, or the
\* page is over.
NextProfile ==
    IF Tail(profile) = <<>>
      THEN NextPage
      ELSE /\ profile' = Tail(profile)
           /\ main_pc' = "profile_json"
           /\ UNCHANGED <<page, page_response, result_type>>

\* Lines 179 and 190-192: the detail JSON of the profile is fetched.
ProfileJson ==
    \E outcome \in {"ok", "RequestError"} :
    /\ main_pc = "profile_json"
    /\ step_outcome' = outcome
    /\ seed_calls' = [seed_calls EXCEPT !.profile_fetched = TRUE]
    /\ IF outcome = "ok"
         THEN /\ main_pc' = "profile_html"
              /\ UNCHANGED <<page, page_response, profile, error_count, result_type>>
         ELSE /\ error_count' = error_count + 1
              /\ NextProfile
    /\ UNCHANGED <<exit_status, urls, url_index, link, seed_response, count,
                   total_pages, page_url, success_count,
                   page_log, pause_log, run_effects, otherVars>>

\* Lines 182 and 190-192: the HTML page of the profile is fetched.
ProfileHtml ==
    \E outcome \in {"ok", "RequestError"} :
    /\ main_pc = "profile_html"
    /\ step_outcome' = outcome
    /\ seed_calls' = [seed_calls EXCEPT !.profile_fetched = TRUE]
    /\ IF outcome = "ok"
         THEN /\ main_pc' = "profile_relation"
              /\ UNCHANGED <<page, page_response, profile, error_count, result_type>>
         ELSE /\ error_count' = error_count + 1
              /\ NextProfile
    /\ UNCHANGED <<exit_status, urls, url_index, link, seed_response, count,
                   total_pages, page_url, success_count,
                   page_log, pause_log, run_effects, otherVars>>

\* How the body of parse_and_store_relation (lines 33-43) can end: the
\* batch is extracted and stored; the extractor raises; or
\* insert_relation_data raises.

\* A mutant of lines 41-43: the failure is logged and True returned.
parse_and_store_relation_AlwaysTrue(outcome) == TRUE

\* A mutant of lines 40-43: the two return values exchanged.
parse_and_store_relation_Inverted(outcome) == outcome # "stored"

\* parse_and_store_relation: True when nothing was raised, else False.
parse_and_store_relation(outcome) == outcome = "stored"

\* Lines 185-188: the relation batch of the profile.
ProfileRelation ==
    \E outcome \in {"stored", "extract_failed", "persist_failed"} :
    /\ main_pc = "profile_relation"
    /\ step_outcome' = outcome
    /\ IF outcome = "extract_failed"
         THEN UNCHANGED <<seed_calls, run_effects>>
         ELSE /\ seed_calls' = [seed_calls EXCEPT !.persisted = TRUE]
              /\ run_effects' = [run_effects EXCEPT !.persisted = TRUE]
    /\ IF parse_and_store_relation(outcome)
         THEN /\ success_count' = success_count + 1
              /\ UNCHANGED error_count
         ELSE /\ error_count' = error_count + 1
              /\ UNCHANGED success_count
    /\ NextProfile
    /\ UNCHANGED <<exit_status, urls, url_index, link, seed_response, count,
                   total_pages, page_url, page_log, pause_log,
                   otherVars>>

\* A mutant of the except clauses of main.py: a bare `except:`, which
\* matches every exception.
except_Exception_Bare(exception) == TRUE

\* `except Exception`: matches the exceptions derived from Exception, which
\* KeyboardInterrupt (derived from BaseException) is not.
except_Exception(exception) == exception # "KeyboardInterrupt"

\* A KeyboardInterrupt is raised at the statement the run is at: in
\* init_db or open(), in a fetch or one of its sleeps, in the pacing sleep,
\* in a parser or in a persistence call (whose own `except Exception`
\* clauses do not match it either).  The innermost clause of main() around
\* the statement that matches handles it as it handles any exception (lines
\* 91-93, 103-105, 207-209, 200-203, 193-195); when none matches it leaves
\* main() and the clause of lines 217-219 ends the process.
Interrupt ==
    /\ main_pc \notin {"exited", "completed"}
    /\ step_outcome' = "KeyboardInterrupt"
    /\ IF main_pc # "next_url" /\ except_Exception("KeyboardInterrupt")
         THEN CASE main_pc \in {"start", "load_urls"} ->
                     /\ sys_exit(1)
                     /\ UNCHANGED <<count, result_type, total_pages, page,
                                    page_response, profile, error_count>>
                [] main_pc \in {"seed_fetch", "count", "page_begin"} ->
                     /\ SeedOver
                     /\ UNCHANGED <<exit_status, page_response, profile, error_count>>
                [] main_pc \in {"page_fetch", "page_type", "page_main"} ->
                     /\ error_count' = error_count + 1
                     /\ NextPage
                     /\ UNCHANGED <<exit_status, count, total_pages>>
                [] OTHER ->
                     /\ error_count' = error_count + 1
                     /\ NextProfile
                     /\ UNCHANGED <<exit_status, count, total_pages>>
         ELSE /\ sys_exit(0)
              /\ UNCHANGED <<count, result_type, total_pages, page,
                             page_response, profile, error_count>>
    /\ UNCHANGED <<urls, url_index, link, seed_response, page_url, success_count,
                   page_log, pause_log, seed_calls, run_effects, otherVars>>

NextMain ==
    \/ InitDbStep
    \/ LoadUrls
    \/ NextUrl
    \/ Completed
    \/ SeedFetch
    \/ DetermineCount
    \/ PageBegin
    \/ SeedDone
    \/ PageFetch
    \/ PageType
    \/ PageMain
    \/ ProfileJson
    \/ ProfileHtml
    \/ ProfileRelation

(***************************************************************************)
(* Part IV.  parser/doctor.py, parser/establishment.py                     *)
(***************************************************************************)
MaxDigits == 3          \* length of the strings given to clean_numeric
MaxTokens == 4          \* number of tokens of a name
MaxRelations == 2       \* relations of a profile response
MaxTimings == 3         \* timing windows of a relation

\* A JSON value as Python holds it: its type, the characters of a str, and
\* the number mantissa / 10^scale of an int (scale 0) or a float.
JsonValue(type, chars, mantissa, scale) ==
    [type |-> type, chars |-> chars, mantissa |-> mantissa, scale |-> scale]

PyNone == JsonValue("NoneType", <<>>, 0, 0)
PyStr(chars) == JsonValue("str", chars, 0, 0)

\* A float: the same number has one representation (no trailing zero in
\* the fraction).
RECURSIVE PyFloat(_, _)
PyFloat(mantissa, scale) ==
    IF scale > 0 /\ mantissa % 10 = 0
      THEN PyFloat(mantissa \div 10, scale - 1)
      ELSE JsonValue("float", <<>>, mantissa, scale)

\* What a function call did: it returned value, or raised.
Pending == [status |-> "pending", raised |-> "none", value |-> <<>>]
Returned(value) == [status |-> "returned", raised |-> "none", value |-> value]
Raised(exception) == [status |-> "raised", raised |-> exception, value |-> <<>>]

IsDigit(c) == \E i \in 1..Len(DigitChars) : DigitChars[i] = c

\* str.isdigit(): not empty and digits only.
isdigit(s) == s # <<>> /\ \A i \in 1..Len(s) : IsDigit(s[i])

\* int(s) of a string of digits.
RECURSIVE IntOfDigits(_)
IntOfDigits(s) ==
    IF s = <<>> THEN 0
    ELSE 10 * IntOfDigits(SubSeq(s, 1, Len(s) - 1))
         + (CHOOSE i \in 1..Len(DigitChars) : DigitChars[i] = s[Len(s)]) - 1

\* str.strip(): the string without its leading and trailing spaces.
RECURSIVE strip(_)
strip(s) ==
    IF s = <<>> THEN s
    ELSE IF Head(s) = " " THEN strip(Tail(s))
    ELSE IF s[Len(s)] = " " THEN strip(SubSeq(s, 1, Len(s) - 1))
    ELSE s

\* float(value): of a number the number; of a str its parse (spaces
\* around, a sign, digits with at most one point and at least one digit,
\* anything else is a ValueError); of a list or a dict a TypeError.
float(value) ==
    LET t == strip(value.chars)
        signed == t # <<>> /\ Head(t) \in {"-", "+"}
        body == IF signed THEN Tail(t) ELSE t
        points == {i \in 1..Len(body) : body[i] = "."}
        digits == SelectSeq(body, IsDigit)
        scale == IF points = {} THEN 0
                 ELSE Len(body) - (CHOOSE i \in points : TRUE)
        magnitude == IntOfDigits(digits)
    IN  CASE value.type \in {"int", "float"} ->
                Returned(PyFloat(value.mantissa, value.scale))
          [] value.type = "str" ->
                IF /\ digits # <<>>
                   /\ Cardinality(points) <= 1
                   /\ Len(digits) + Cardinality(points) = Len(body)
                  THEN Returned(PyFloat(IF Head(t) = "-" THEN 0 - magnitude
                                        ELSE magnitude, scale))
                  ELSE Raised("ValueError")
          [] OTHER -> Raised("TypeError")

\* clean_numeric (the same code in both parsers).
clean_numeric(value) ==
    IF value = PyStr(<<>>) \/ value = PyNone THEN Returned(PyNone)
    ELSE IF value.type = "str" /\ isdigit(value.chars)
      THEN Returned(JsonValue("int", <<>>, IntOfDigits(value.chars), 0))
    ELSE LET f == float(value)
         IN  IF f.raised = "ValueError" THEN Returned(PyNone) ELSE f

\* The values a numeric payload field is given here: null, strings, numbers,
\* an array, an object.
NumericValues ==
    {PyNone, JsonValue("list", <<>>, 0, 0), JsonValue("dict", <<>>, 0, 0),
     JsonValue("int", <<>>, 0, 0), JsonValue("int", <<>>, 7, 0), PyFloat(25, 1)}
    \cup {PyStr(s) : s \in SeqsOf({"1", "2", ".", "-", "a"}, 0, MaxDigits)}
    \cup {PyStr(<<"1", "2", ".", "5">>), PyStr(<<"a", "b", "c">>),
          PyStr(<<" ", "1", "2">>), PyStr(<<"1", ".", "5", "0">>)}

\* str.split(" "): the pieces between the single spaces.
RECURSIVE split(_)
split(s) ==
    IF \A i \in 1..Len(s) : s[i] # " " THEN <<s>>
    ELSE LET i == CHOOSE i \in 1..Len(s) :
                      s[i] = " " /\ \A j \in 1..(i - 1) : s[j] # " "
         IN  <<SubSeq(s, 1, i - 1)>> \o split(SubSeq(s, i + 1, Len(s)))

\* " ".join(tokens)
RECURSIVE join(_)
join(tokens) ==
    IF tokens = <<>> THEN <<>>
    ELSE IF Len(tokens) = 1 THEN tokens[1]
    ELSE tokens[1] \o <<" ">> \o join(Tail(tokens))

\* name = full_name.split(" "); name += [""] * (3 - len(name))
padded_name(full_name) ==
    LET name == split(full_name)
    IN  name \o [i \in 1..(3 - Len(name)) |-> <<>>]

\* doctor.py lines 100-101 and 109-110.
doctor_names(doctor_name) ==
    LET name == padded_name(doctor_name)
    IN  [first_name |-> strip(join(SubSeq(name, 1, 2))),
         last_name |-> strip(join(SubSeq(name, 3, Len(name))))]

\* establishment.py lines 56-57 and 74-75.
provider_names(full_name) ==
    LET name == padded_name(full_name)
    IN  [first_name |-> join(SubSeq(name, 1, 2)),
         last_name |-> join(SubSeq(name, 3, Len(name)))]

\* The names given here: up to MaxTokens one-letter tokens with one space
\* between them, "A B C D", and names with spaces out of place.
Names ==
    {join(tokens) : tokens \in SeqsOf({<<"A">>, <<"B">>}, 0, MaxTokens)}
    \cup {<<"A", " ", "B", " ", "C", " ", "D">>,
          <<" ", "A">>, <<"A", " ">>, <<"A", " ", " ", "B">>}

\* The entities of a provider listing: the name and one numeric field of
\* each (the other numeric fields go through clean_numeric likewise).
DoctorListings ==
    {<<>>}
    \cup {<<[doctor_name |-> n, rank |-> PyNone]>> : n \in Names}
    \cup {<<[doctor_name |-> <<"A", " ", "B">>, rank |-> v]>> : v \in NumericValues}
    \cup {<<[doctor_name |-> <<"A">>, rank |-> v],
            [doctor_name |-> <<"B", " ", "A">>, rank |-> w]>> :
            v, w \in {PyStr(<<"1", "2">>), JsonValue("list", <<>>, 0, 0)}}

\* parse_doctors_data: the doctors_data of the entities, in their order.
RECURSIVE parse_doctors_data(_)
parse_doctors_data(doctors) ==
    IF doctors = <<>> THEN Returned(<<>>)
    ELSE LET details == Head(doctors)
             practo_rank == clean_numeric(details.rank)
             rest == parse_doctors_data(Tail(doctors))
         IN  IF practo_rank.status = "raised" THEN practo_rank
             ELSE IF rest.status = "raised" THEN rest
             ELSE Returned(<<[first_name |-> doctor_names(details.doctor_name).first_name,
                              last_name |-> doctor_names(details.doctor_name).last_name,
                              practo_rank |-> practo_rank.value]>> \o rest.value)

\* The relations of a profile response given here, up to MaxRelations: each
\* with its fee list (has_fees: the key is there), up to MaxTimings timing
\* windows, the counterpart's id and, for a provider, name.
ProfileRelations(fabric_id, full_name) ==
    LET Window(i) ==
            [begin_time |-> 8 + i, end_time |-> 12 + i,
             available_days |-> IF i % 2 = 0 THEN <<"MONDAY">>
                                ELSE <<"TUESDAY", "FRIDAY">>]
        TimingLists ==
            {[i \in 1..n |-> Window(o + i)] : n \in 0..MaxTimings, o \in {0, 10}}
        FeeLists ==
            {<<>>, <<[amount |-> 500, type |-> "consultation"]>>,
             <<[amount |-> 300, type |-> "online"],
               [amount |-> 500, type |-> "consultation"]>>}
    IN  SeqsOf({r \in [has_fees : BOOLEAN, fees : FeeLists, timings : TimingLists,
                       fabric_id : {fabric_id}, full_name : {full_name}] :
                    r.has_fees \/ r.fees = <<>>},
               0, MaxRelations)

\* value.get("fees", [{}])[0]: the first fee entry, an empty dict when the
\* key is absent, an IndexError when the list is empty.
first_fee(value) ==
    IF ~value.has_fees THEN Returned([amount |-> None, type |-> "None"])
    ELSE IF value.fees = <<>> THEN Raised("IndexError")
    ELSE Returned(value.fees[1])

\* data[index] of parse_doctor_establishment_relation (doctor.py 43-77) and
\* of parse_establishment_doctor_relation (establishment.py 60-81).
RelationItem(key, practo_id, value, fee, timing) ==
    LET relation_info(doctor_id, establishment_id) ==
            [doctor_id |-> doctor_id, establishment_id |-> establishment_id,
             fees |-> <<fee.amount, fee.type>>,
             begin_time |-> timing.begin_time, end_time |-> timing.end_time,
             available_days |-> timing.available_days]
    IN  IF key = "doctor"
          THEN [relation_info |-> relation_info(practo_id, value.fabric_id),
                establishment_info |-> [establishment_id |-> value.fabric_id]]
          ELSE [relation_info |-> relation_info(value.fabric_id, practo_id),
                doctor_info |-> [doctor_id |-> value.fabric_id,
                                 first_name |-> provider_names(value.full_name).first_name,
                                 last_name |-> provider_names(value.full_name).last_name]]

\* for timing in timings: data[index] = ...; index += 1
RECURSIVE timing_loop(_, _, _, _, _, _)
timing_loop(key, practo_id, value, timings, data, index) ==
    IF timings = <<>> THEN Returned([data |-> data, index |-> index])
    ELSE LET fee == first_fee(value)
         IN  IF fee.status = "raised" THEN fee
             ELSE timing_loop(key, practo_id, value, Tail(timings),
                              data @@ (index :> RelationItem(key, practo_id, value,
                                                             fee.value, Head(timings))),
                              index + 1)

\* for value in relations: ...
RECURSIVE relation_loop(_, _, _, _, _)
relation_loop(key, practo_id, relations, data, index) ==
    IF relations = <<>> THEN Returned(data)
    ELSE LET r == timing_loop(key, practo_id, Head(relations),
                              Head(relations).timings, data, index)
         IN  IF r.status = "raised" THEN r
             ELSE relation_loop(key, practo_id, Tail(relations),
                                r.value.data, r.value.index)

parse_doctor_establishment_relation(doctor_id, relations) ==
    relation_loop("doctor", doctor_id, relations, <<>>, 0)

parse_establishment_doctor_relation(establishment_id, relations) ==
    relation_loop("hospital", establishment_id, relations, <<>>, 0)

InitParse ==
    /\ fn = "none"
    /\ arg = <<>>
    /\ ret = Pending

\* A call of a parser function with an argument of the sets above; the
\* facility-side extractor is also given one relation of one timing per name.
InitCall ==
    /\ InitHTTP /\ InitDB /\ InitMain
    /\ practo_doctors = {}
    /\ ret = Pending
    /\ \/ fn \in {"doctor.clean_numeric", "establishment.clean_numeric"}
             /\ arg \in NumericValues
       \/ fn = "parse_doctors_data" /\ arg \in DoctorListings
       \/ fn = "parse_doctor_establishment_relation"
             /\ arg \in ProfileRelations("e1", <<>>)
       \/ fn = "parse_establishment_doctor_relation"
             /\ arg \in ProfileRelations("d1", <<"A", " ", "B", " ", "C">>)
                        \cup {<<[has_fees |-> TRUE,
                                 fees |-> <<[amount |-> 500, type |-> "consultation"]>>,
                                 timings |-> <<[begin_time |-> 9, end_time |-> 13,
                                                available_days |-> <<"MONDAY">>]>>,
                                 fabric_id |-> "d1", full_name |-> n]>> : n \in Names}

CleanNumeric ==
    /\ fn \in {"doctor.clean_numeric", "establishment.clean_numeric"}
    /\ ret.status = "pending"
    /\ ret' = clean_numeric(arg)
    /\ UNCHANGED <<fn, arg, httpVars, dbVars, mainVars>>

ParseDoctorsData ==
    /\ fn = "parse_doctors_data"
    /\ ret.status = "pending"
    /\ ret' = parse_doctors_data(arg)
    /\ UNCHANGED <<fn, arg, httpVars, dbVars, mainVars>>

ParseDoctorEstablishmentRelation ==
    /\ fn = "parse_doctor_establishment_relation"
    /\ ret.status = "pending"
    /\ ret' = parse_doctor_establishment_relation("d1", arg)
    /\ UNCHANGED <<fn, arg, httpVars, dbVars, mainVars>>

ParseEstablishmentDoctorRelation ==
    /\ fn = "parse_establishment_doctor_relation"
    /\ ret.status = "pending"
    /\ ret' = parse_establishment_doctor_relation("e1", arg)
    /\ UNCHANGED <<fn, arg, httpVars, dbVars, mainVars>>

NextParse ==
    \/ CleanNumeric
    \/ ParseDoctorsData
    \/ ParseDoctorEstablishmentRelation
    \/ ParseEstablishmentDoctorRelation

(***************************************************************************)
(* The specifications                                                      *)
(***************************************************************************)
Init == InitHTTP /\ InitDB /\ InitMain /\ InitParse

NextDB ==
    \/ insert_main_data
    \/ MainItem
    \/ MainCommit
    \/ insert_relation_data
    \/ RelCheckItem
    \/ RelStubItem
    \/ RelEdgeItem
    \/ RelCommit
    \/ CallAborts
    \/ execute_query
    \/ ExecuteQueryDone

Next == NextHTTP \/ NextDB \/ NextMain

\* Everything together.
Spec == Init /\ [][Next]_vars
\* One fetch after the other, the store untouched.
SpecHTTP == Init /\ [][NextHTTP]_vars
\* One persistence call after the other, no fetch in between.
SpecDB == Init /\ [][NextDB]_vars
\* One run of main(), the fetches and the persistence calls seen from
\* outside: each returns or raises.
InitRun == Init /\ practo_doctors = {}
SpecMain == InitRun /\ [][NextMain]_vars
\* The traversal when every call returns or raises and the interpreter
\* goes on to the next statement: a step that can be taken is taken.
SpecMainFair == InitRun /\ [][NextMain]_vars /\ WF_vars(NextMain)
\* The traversal with an interrupt that can arrive at any step.
SpecInterrupt == InitRun /\ [][NextMain \/ Interrupt]_vars
\* One call of a function of the parsers.
SpecParse == InitCall /\ [][NextParse]_vars

(***************************************************************************)
(* Claims about make_request (checked under SpecHTTP)                      *)
(***************************************************************************)
IsExhausted == mr_pc = "raised" /\ err = ExhaustedRaised(url)

\* C1: for max_retries >= 1, when every attempt fails with a retryable error
\* (connection failure, timeout, 5xx, 429) the call never returns, it ends
\* only by raising RequestError, and when it has ended exactly max_retries
\* requests were issued; never more than max_retries requests are issued.
C1_RetryableExhausts ==
    /\ n_requests <= max_retries
    /\ (only_retryable /\ n_requests >= 1) =>
          /\ mr_pc # "returned"
          /\ mr_result = "none"
          /\ mr_pc = "raised" =>
                /\ n_requests = max_retries
                /\ err.message # "none"
                /\ err.url = url
          /\ n_requests = max_retries => mr_pc \in {"failed", "raised"}
          /\ n_requests < max_retries => mr_pc \in {"failed", "attempt"}

\* C1 witness: HTTP 500 on every attempt with max_retries = 3 has ended in a
\* RequestError after exactly 3 requests.
C1_Witness ==
    /\ mr_pc = "raised"
    /\ only_retryable
    /\ max_retries = 3
    /\ n_requests = 3
    /\ last_outcome.kind = "response"
    /\ last_outcome.status = 500

\* C2: an attempt that receives a 4xx status other than 429 ends the call at
\* once with a RequestError of that status: it was the last request, no
\* sleep follows it (a 404 on the first attempt: 1 request, no sleep),
\* whatever number of retries remains; a 429 never ends the call that way,
\* it is retried until the attempts are exhausted.
C2_ClientErrorFailsAtOnce ==
    /\ (/\ last_outcome.kind = "response"
        /\ last_outcome.status >= 400
        /\ last_outcome.status < 500
        /\ last_outcome.status # 429) =>
          /\ mr_pc = "raised"
          /\ err.status_code = last_outcome.status
          /\ err.url = url
          /\ n_requests = attempt + 1
          /\ Len(sleeps) = attempt
    /\ (last_outcome.kind = "response" /\ last_outcome.status = 429) =>
          /\ mr_pc \in {"failed", "attempt", "raised"}
          /\ mr_pc = "raised" => (n_requests = max_retries /\ err.status_code # 429)
          /\ mr_pc = "attempt" => Len(sleeps) = n_requests

\* C2 witness: a 404 on the first of three attempts has ended the call after
\* one request and no sleep.
C2_Witness ==
    /\ mr_pc = "raised"
    /\ max_retries = 3
    /\ last_outcome.kind = "response"
    /\ last_outcome.status = 404
    /\ n_requests = 1
    /\ sleeps = <<>>

\* The powers of two, written out.
C3_PowersOfTwo == <<1, 2, 4, 8, 16, 32>>

\* C3: the i-th sleep of a call (after failed attempt i-1) lasts
\* retry_delay * 2^(i-1); there is a sleep between two attempts and nowhere
\* else: none before the first attempt, none after the last, exactly
\* max_retries - 1 in a call that exhausts its attempts.
C3_BackoffBetweenAttempts ==
    /\ \A i \in 1..Len(sleeps) : sleeps[i] = retry_delay * C3_PowersOfTwo[i]
    /\ n_requests = 0 => sleeps = <<>>
    /\ Len(sleeps) <= max_retries - 1 \/ mr_pc = "idle"
    /\ mr_pc = "attempt" => Len(sleeps) = n_requests
    /\ mr_pc \in {"failed", "returned", "raised"} => Len(sleeps) = n_requests - 1
    /\ IsExhausted => Len(sleeps) = max_retries - 1

\* C3 witness: a call with the defaults (3 attempts, base 2 s) that exhausted
\* its attempts slept 2 s, then 4 s.
C3_Witness ==
    /\ IsExhausted
    /\ max_retries = 3
    /\ retry_delay = 2
    /\ sleeps = <<2, 4>>

\* C4 (as stated; the code violates it): the RequestError raised when the
\* attempts are exhausted carries the URL and, when the last failed attempt
\* produced an HTTP response, that response's status code.
C4_ExhaustedCarriesStatus ==
    IsExhausted =>
        /\ err.url = url
        /\ last_outcome.kind = "response" => err.status_code = last_outcome.status

(***************************************************************************)
(* Claims about the persistence calls (checked under SpecDB)               *)
(***************************************************************************)
AllOk(log) == \A i \in 1..Len(log) : log[i] = "ok"

MainTable(query, doctors, establishments) ==
    IF query = "DOCTOR_INSERT_QUERY" THEN doctors ELSE establishments
MainColumns(query) ==
    IF query = "DOCTOR_INSERT_QUERY" THEN DOCTOR_COLUMNS ELSE ESTABLISHMENT_COLUMNS
MainAggregateColumns(query) ==
    IF query = "DOCTOR_INSERT_QUERY"
      THEN DoctorAggregateColumns ELSE EstablishmentAggregateColumns

\* The row of `table` for the record `values` holds the record's value in
\* each of the columns `cols`.
HoldsValues(table, columns, cols, values) ==
    \E r \in RowsWithUUID(table, values[1]) :
        \A i \in 1..Len(columns) : columns[i] \in cols => r[columns[i]] = values[i]

OneRowPerUUID(table) ==
    \A r1, r2 \in table : r1["practo_uuid"] = r2["practo_uuid"] => r1 = r2

\* C5 (as stated; the code violates it for the facility column `state`, see
\* C6): after insert_main_data calls the store holds exactly one row per
\* inserted UUID; a second insert of a UUID leaves that one row with the
\* latest value in every non-identity column of the record, and its UUID and
\* its aggregate-count columns as they were.
C5_UpsertIdempotent ==
    [][(MainCommit /\ AllOk(item_log)) =>
        LET old == MainTable(call.query, practo_doctors, practo_establishments)
            new == MainTable(call.query, practo_doctors', practo_establishments')
            columns == MainColumns(call.query)
        IN  /\ OneRowPerUUID(new)
            /\ \A i \in 1..Len(call.data) :
                 LET values == call.data[i]
                 IN  /\ Cardinality(RowsWithUUID(new, values[1])) = 1
                     /\ HoldsValues(new, columns, Range(columns), values)
                     /\ \A o \in RowsWithUUID(old, values[1]) :
                          \E r \in RowsWithUUID(new, values[1]) :
                            \A c \in MainAggregateColumns(call.query) : r[c] = o[c]
    ]_vars

\* C6 (as stated; the code violates it for `state`): on a UUID conflict the
\* upsert gives every column of the inserted column set that is neither
\* practo_uuid nor an aggregate-count column the value of the new record,
\* in both tables, the facility's city, state and locality included.
C6_ConflictOverwritesColumns ==
    [][(MainCommit /\ AllOk(item_log)) =>
        LET old == MainTable(call.query, practo_doctors, practo_establishments)
            new == MainTable(call.query, practo_doctors', practo_establishments')
            columns == MainColumns(call.query)
        IN  \A i \in 1..Len(call.data) :
              RowsWithUUID(old, call.data[i][1]) # {} =>
                \A j \in 2..Len(columns) :
                  columns[j] \notin MainAggregateColumns(call.query) =>
                    \A r \in RowsWithUUID(new, call.data[i][1]) :
                      r[columns[j]] = call.data[i][j]
    ]_vars

\* C7 (as stated; the code violates it when the server rejects a record):
\* a failure on one record does not abort the batch: every record of the
\* batch is attempted, and the commit makes each successfully processed
\* record durable (the columns the statement writes hold its values) while
\* a failed record leaves the rows of its UUID as they were.
C7_RecordFailureIsolated ==
    [][MainCommit =>
        LET old == MainTable(call.query, practo_doctors, practo_establishments)
            new == MainTable(call.query, practo_doctors', practo_establishments')
            columns == MainColumns(call.query)
        IN  /\ Len(item_log) = Len(call.data)
            /\ \A i \in 1..Len(call.data) :
                 IF item_log[i] = "ok"
                   THEN HoldsValues(new, columns,
                                    generate_do_update_clause(columns), call.data[i])
                   ELSE RowsWithUUID(new, call.data[i][1])
                          = RowsWithUUID(old, call.data[i][1])
    ]_vars

CounterpartOf(value) ==
    IF HasDoctorInfo(value)
      THEN value.relation_info.doctor_id
      ELSE value.relation_info.establishment_id

\* The table of the counterparts of an owner of type `key`.
CounterpartTable(key, doctors, establishments) ==
    IF key = "doctor" THEN establishments ELSE doctors

\* The minimal row a stub statement proposes for an item.
StubRowOf(value) ==
    IF HasDoctorInfo(value)
      THEN ProposedRow(DoctorTableColumns, DOCTOR_COLUMNS_SMALL, value.doctor_info)
      ELSE ProposedRow(EstablishmentTableColumns, ESTABLISHMENT_COLUMNS_SMALL,
                       value.establishment_info)

InRelationCall == call.op = "insert_relation_data" /\ db_pc # "idle"

\* C8: when insert_relation_data comes to insert the edge of an item, the
\* counterpart has exactly one row, and if it had none when the item was
\* checked that row is the minimal stub built from the item; so every edge
\* row the call adds resolves its counterpart id.  No call runs two stub
\* statements for one UUID, and no table ever holds two rows of one UUID.
C8_StubBeforeEdge ==
    /\ OneRowPerUUID(tx_doctors) /\ OneRowPerUUID(tx_establishments)
    /\ OneRowPerUUID(practo_doctors) /\ OneRowPerUUID(practo_establishments)
    /\ IsInjective(stub_log)
    /\ (InRelationCall /\ db_pc = "rel_edge") =>
         LET value == Head(batch)
             rows == RowsWithUUID(
                        CounterpartTable(call.key, tx_doctors, tx_establishments),
                        CounterpartOf(value))
         IN  /\ Cardinality(rows) = 1
             /\ ~(IF call.key = "doctor" THEN establishment_exists ELSE doctor_exists)
                   => rows = {StubRowOf(value)}
    /\ InRelationCall =>
         \A i \in 1..Len(tx_relations) :
            i > Len(practo_doctor_establishment) =>
               (IF call.key = "doctor" THEN tx_relations[i].establishment_id
                                       ELSE tx_relations[i].doctor_id) # NullId

\* C8 witness: a call whose two edges go to one counterpart that had no row
\* has run one stub statement and is about to insert its second edge.
C8_Witness ==
    /\ InRelationCall
    /\ db_pc = "rel_edge"
    /\ Len(call.relation) = 2
    /\ CounterpartOf(call.relation[1]) = CounterpartOf(call.relation[2])
    /\ RowsWithUUID(CounterpartTable(call.key, practo_doctors, practo_establishments),
                    CounterpartOf(call.relation[1])) = {}
    /\ stub_log = <<CounterpartOf(call.relation[1])>>
    /\ item_log = <<"ok">>
    /\ Len(tx_relations) = Len(practo_doctor_establishment) + 1

\* C9: persisting edges never changes a counterpart row that exists: at
\* every step of insert_relation_data, each committed row of the
\* counterparts' table is still there, with every column as it was, in what
\* the transaction sees and in what is committed.
C9_StubNeverUpdates ==
    [][call'.op = "insert_relation_data" =>
        LET before == CounterpartTable(call'.key, practo_doctors, practo_establishments)
        IN  /\ before \subseteq
                  CounterpartTable(call'.key, practo_doctors', practo_establishments')
            /\ before \subseteq CounterpartTable(call'.key, tx_doctors', tx_establishments')
    ]_vars

\* C9 witness: a call has persisted two edges to counterparts that already
\* had a row, one of them a stub, without running a stub statement.
C9_Witness ==
    /\ db_pc = "idle"
    /\ call.op = "insert_relation_data"
    /\ item_log = <<"ok", "ok">>
    /\ stub_log = <<>>
    /\ \E i \in 1..Len(call.relation) :
         \E r \in RowsWithUUID(
                    CounterpartTable(call.key, practo_doctors, practo_establishments),
                    CounterpartOf(call.relation[i])) :
            r = StubRowOf(DoctorRelationItem("d1", "e2", 1, 1))

\* C10 (as stated; the code violates it when the server rejects a
\* statement of an item): a failure on one edge is skipped: every item of
\* the batch is processed, and the commit stores the owner's counts and the
\* edge row of every item that succeeded.
C10_EdgeFailureIsolated ==
    [][RelCommit =>
        /\ Len(item_log) = Len(call.relation)
        /\ Len(practo_doctor_establishment') =
              Len(practo_doctor_establishment)
                + Cardinality({i \in 1..Len(item_log) : item_log[i] = "ok"})
        /\ \A i \in 1..Len(item_log) :
              item_log[i] = "ok" =>
                \E k \in 1..Len(practo_doctor_establishment') :
                    /\ k > Len(practo_doctor_establishment)
                    /\ practo_doctor_establishment'[k].timing
                          = call.relation[i].relation_info.timing
        /\ IF call.key = "doctor"
             THEN \A r \in RowsWithUUID(practo_doctors', call.practo_id) :
                     r["establishment_count"] = call.count
             ELSE \A r \in RowsWithUUID(practo_establishments', call.practo_id) :
                     /\ r["doctor_count"] = call.count
                     /\ r["number_of_beds"] = call.bed_count
                     /\ r["number_of_ambulances"] = call.amb_count
    ]_vars

IsPrefix(s, t) == Len(s) <= Len(t) /\ \A i \in 1..Len(s) : s[i] = t[i]

\* C11: the edge table is append-only: every step of a persistence call
\* leaves each committed edge row in place and unchanged (so their number
\* never decreases), only the commit of insert_relation_data adds rows, and
\* a call whose n items all succeeded adds exactly n rows, whether or not
\* equal rows were stored before.
C11_EdgesAppendOnly ==
    [][/\ IsPrefix(practo_doctor_establishment, practo_doctor_establishment')
       /\ ~RelCommit => practo_doctor_establishment' = practo_doctor_establishment
       /\ (RelCommit /\ AllOk(item_log) /\ Len(item_log) = Len(call.relation)) =>
             Len(practo_doctor_establishment') =
                 Len(practo_doctor_establishment) + Len(call.relation)
    ]_vars

\* C11 witness: a call has stored its edges although an equal edge row was
\* stored before: the table holds the same row twice.
C11_Witness ==
    /\ db_pc = "idle"
    /\ call.op = "insert_relation_data"
    /\ call.relation # <<>>
    /\ AllOk(item_log) /\ Len(item_log) = Len(call.relation)
    /\ \E i, j \in 1..Len(practo_doctor_establishment) :
          /\ i < j
          /\ j = Len(practo_doctor_establishment)
          /\ practo_doctor_establishment[i] = practo_doctor_establishment[j]

(***************************************************************************)
(* Claims about the traversal (checked under SpecMain)                     *)
(***************************************************************************)
InPageLoop ==
    main_pc \in {"page_begin", "page_fetch", "page_type", "page_main",
                 "profile_json", "profile_html", "profile_relation"}

\* The seed URL u with the value of its query parameter `page` set to k.
C12_WithPage(u, k) ==
    LET i == CHOOSE i \in 2..Len(u) : u[i] = "page=" /\ u[i - 1] = "&"
    IN  SubSeq(u, 1, i) \o Str(k) \o SubSeq(u, i + 2, Len(u))

\* C12: for a result count c > 0 the page loop runs over floor(c/10)+1
\* pages (the n with 10(n-1) <= c < 10n; 9: 1, 10: 2, 25: 3): the pages
\* fetched at any moment are pages 1, 2, ... in this order, one fetch each,
\* page k at the seed URL with its page parameter set to k, and the loop
\* ends only when total_pages pages were fetched.
C12_PageLoop ==
    InPageLoop =>
        /\ count > 0
        /\ 10 * (total_pages - 1) <= count /\ count < 10 * total_pages
        /\ count = 9 => total_pages = 1
        /\ count = 10 => total_pages = 2
        /\ count = 25 => total_pages = 3
        /\ page >= 1 /\ page <= total_pages + 1
        /\ Len(page_log) =
              (IF main_pc \in {"page_begin", "page_fetch"} THEN page - 1 ELSE page)
        /\ \A k \in 1..Len(page_log) : page_log[k] = C12_WithPage(link, k)
        /\ main_pc # "page_begin" => page <= total_pages

\* C12 witness: the page loop of a provider seed URL with 25 results is
\* over after the fetches of pages 1, 2, 3.
C12_Witness ==
    /\ main_pc = "page_begin"
    /\ link = DOCTORS_URL
    /\ count = 25
    /\ page = 4
    /\ Len(page_log) = 3
    /\ page_log[3] = <<"provider-seo/v2/?", "url_path=x", "&", "page=", "3", "&",
                       "placement=DOCTOR_SEARCH", "&", "is_procedure_cost_",
                       "page=", "false">>

\* The count field of the seed URL's response is zero or absent.
C13_ZeroOrAbsent(body) ==
    \/ body.count_field = "absent"
    \/ body.count_field = "number" /\ body.value = 0

\* C13: a seed URL whose result count is zero or absent is skipped: the
\* step that reads the count goes straight to the next seed URL, the
\* error counter is as it was, and no page was fetched, no profile fetched
\* and no persistence call made for the seed URL.
C13_ZeroCountSkipped ==
    [][(main_pc = "count" /\ C13_ZeroOrAbsent(seed_response)) =>
          /\ main_pc' = "next_url"
          /\ url_index' = url_index
          /\ error_count' = error_count
          /\ exit_status' = Running
          /\ page_log' = <<>>
          /\ seed_calls' = [profile_fetched |-> FALSE, persisted |-> FALSE]
          /\ run_effects'.persisted = run_effects.persisted
    ]_vars

\* C13 witness: the first of two seed URLs was skipped for an absent count
\* and the loop is about to take the second.
C13_Witness ==
    /\ main_pc = "next_url"
    /\ seed_response.count_field = "absent"
    /\ url_index = 1
    /\ Len(urls) = 2
    /\ page_log = <<>>
    /\ ~seed_calls.persisted

\* C14 (as stated; the code pauses one page earlier): the pacing pauses
\* last 3 seconds, the i-th is taken when pages 1..5i have been fetched
\* (before page 5i+1), and page 5i+1 is not fetched without it.
C14_PauseAfterFifthPage ==
    /\ \A i \in 1..Len(pause_log) :
          /\ pause_log[i].seconds = 3
          /\ pause_log[i].pages_fetched = 5 * i
    /\ (InPageLoop /\ main_pc # "page_begin") =>
          Len(pause_log) = (Len(page_log) - (IF main_pc = "page_fetch" THEN 0 ELSE 1)) \div 5

\* A step of the traversal in which a page fetch, a profile fetch or a
\* relation batch failed.
C15_PageFetchFails == main_pc = "page_fetch" /\ step_outcome' = "RequestError"
C15_ProfileFails ==
    \/ main_pc \in {"profile_json", "profile_html"} /\ step_outcome' = "RequestError"
    \/ main_pc = "profile_relation"
          /\ step_outcome' \in {"extract_failed", "persist_failed"}

\* C15: a failed page fetch, a failed profile fetch (detail JSON or HTML)
\* and a failed relation batch each add exactly one to the error counter
\* and nothing to the success counter, and the loop goes on with the next
\* page, respectively the next profile of the page (the next page after the
\* last profile); the run does not end and stays at the same seed URL.
C15_FailureIsolated ==
    [][/\ (C15_PageFetchFails \/ C15_ProfileFails) =>
            /\ error_count' = error_count + 1
            /\ success_count' = success_count
            /\ exit_status' = Running
            /\ url_index' = url_index /\ urls' = urls /\ link' = link
            /\ total_pages' = total_pages
       /\ C15_PageFetchFails => (main_pc' = "page_begin" /\ page' = page + 1)
       /\ C15_ProfileFails =>
            IF Len(profile) > 1
              THEN main_pc' = "profile_json" /\ profile' = Tail(profile) /\ page' = page
              ELSE main_pc' = "page_begin" /\ page' = page + 1
    ]_vars

\* C15 witness: the relation batch of the first of two profiles has just
\* failed, on the second page of the second seed URL, after two earlier
\* failures, and the second profile is next.
C15_Witness ==
    /\ main_pc = "profile_json"
    /\ step_outcome = "persist_failed"
    /\ Len(profile) = 1
    /\ error_count = 3
    /\ page = 2
    /\ url_index = 2

\* C16: when init_db or the reading of urls.txt fails, the run ends at
\* once with exit status 1; and a run that ended with a non-zero status
\* has issued no request, made no persistence call and taken no seed URL.
C16_FatalBootstrapAborts ==
    [][/\ (main_pc \in {"start", "load_urls"} /\ step_outcome' # "ok") =>
            (main_pc' = "exited" /\ exit_status' = 1)
       /\ (exit_status' # Running /\ exit_status' # 0) =>
            /\ main_pc' = "exited"
            /\ ~run_effects'.requested
            /\ ~run_effects'.persisted
            /\ url_index' = 0
            /\ page_log' = <<>>
    ]_vars

\* C16 witness: init_db succeeded, urls.txt is missing, the run has ended
\* with status 1.
C16_Witness ==
    /\ main_pc = "exited"
    /\ exit_status = 1
    /\ step_outcome = "FileNotFoundError"
    /\ ~run_effects.requested

\* C17 (as stated; the code takes the absent collection for an empty
\* one): a page whose body lacks the entity collection of its type makes
\* the normalization step raise a data-shape error (ValueError at the
\* orchestrator), and the page is skipped and counted as an error.
C17_MissingCollectionIsError ==
    [][(main_pc = "page_main" /\ page_response.collection = "absent") =>
          /\ step_outcome' = "ValueError"
          /\ error_count' = error_count + 1
          /\ main_pc' = "page_begin"
          /\ page' = page + 1
    ]_vars

(***************************************************************************)
(* Claims about the parsers (checked under SpecParse)                      *)
(***************************************************************************)
IsCleanNumericCall == fn \in {"doctor.clean_numeric", "establishment.clean_numeric"}

\* C18 (as stated; the code raises TypeError for an array or an object):
\* clean_numeric returns for every value and raises for none: null for ""
\* and None, the integer for a string of digits ("12": 12), the float for
\* another parsable string ("12.5": 12.5), null for every value with no
\* number in it ("abc", a string without a digit, an array, an object).
C18_CleanNumericTotal ==
    (IsCleanNumericCall /\ ret.status # "pending") =>
        /\ ret.status = "returned"
        /\ arg \in {PyNone, PyStr(<<>>)} => ret.value = PyNone
        /\ arg = PyStr(<<"1", "2">>) => ret.value = JsonValue("int", <<>>, 12, 0)
        /\ arg = PyStr(<<"1", "2", ".", "5">>) =>
              ret.value = JsonValue("float", <<>>, 125, 1)
        /\ arg = PyStr(<<"a", "b", "c">>) => ret.value = PyNone
        /\ (arg.type = "str" /\ \A i \in 1..Len(arg.chars) : ~IsDigit(arg.chars[i])) =>
              ret.value = PyNone
        /\ arg.type \in {"list", "dict"} => ret.value = PyNone
        /\ (arg.type = "str" /\ arg.chars # <<>>
              /\ \A i \in 1..Len(arg.chars) : IsDigit(arg.chars[i])) =>
              ret.value.type = "int"

\* The first and last name the claim gives to a name made of tokens.
C19_Expected(tokens) ==
    [first_name |-> join(SubSeq(tokens, 1, IF Len(tokens) < 2 THEN Len(tokens) ELSE 2)),
     last_name |-> join(SubSeq(tokens, 3, Len(tokens)))]

\* What a returned call made of the name full_name.
C19_SplitAs(full_name, names) ==
    /\ full_name = <<"A", " ", "B", " ", "C", " ", "D">> =>
          /\ names.first_name = <<"A", " ", "B">>
          /\ names.last_name = <<"C", " ", "D">>
    /\ full_name = <<"A">> =>
          /\ names.first_name = <<"A">>
          /\ names.last_name = <<>>
    /\ \A tokens \in SeqsOf({<<"A">>, <<"B">>}, 1, MaxTokens) :
          full_name = join(tokens) =>
              /\ names.first_name = C19_Expected(tokens).first_name
              /\ names.last_name = C19_Expected(tokens).last_name

\* C19 (as stated; the facility-side extractor leaves a trailing space in
\* the first name of a one-token name): in parse_doctors_data and in
\* parse_establishment_doctor_relation alike, the first name of a name of
\* tokens with one space between them is its first two tokens joined by a
\* space and the last name the other tokens: "A B C D" gives "A B" and
\* "C D", "A" gives "A" and "".
C19_NameSplit ==
    /\ (fn = "parse_doctors_data" /\ ret.status = "returned" /\ Len(arg) = 1) =>
          C19_SplitAs(arg[1].doctor_name, ret.value[1])
    /\ (fn = "parse_establishment_doctor_relation" /\ ret.status = "returned"
          /\ Len(arg) = 1 /\ Len(arg[1].timings) = 1) =>
          C19_SplitAs(arg[1].full_name, ret.value[0].doctor_info)

\* The number of timing windows of the first j relations.
RECURSIVE C20_Timings(_, _)
C20_Timings(relations, j) ==
    IF j = 0 THEN 0
    ELSE C20_Timings(relations, j - 1) + Len(relations[j].timings)

\* C20 (as stated; an empty fee list makes the extractors raise, see C33):
\* each extractor returns, for relations with t_1, ..., t_m timing windows,
\* t_1 + ... + t_m edges under the indices 0..n-1; the k-th timing of the
\* j-th relation is the edge of index t_1 + ... + t_(j-1) + k - 1, with the
\* begin, end and weekdays of that timing and, when the relation has a fee
\* entry, the amount and type of its first one.
C20_RelationExpansion ==
    (fn \in {"parse_doctor_establishment_relation",
             "parse_establishment_doctor_relation"} /\ ret.status # "pending") =>
        /\ ret.status = "returned"
        /\ DOMAIN ret.value = 0..(C20_Timings(arg, Len(arg)) - 1)
        /\ \A j \in 1..Len(arg) : \A k \in 1..Len(arg[j].timings) :
              LET edge == ret.value[C20_Timings(arg, j - 1) + k - 1].relation_info
                  timing == arg[j].timings[k]
              IN  /\ edge.begin_time = timing.begin_time
                  /\ edge.end_time = timing.end_time
                  /\ edge.available_days = timing.available_days
                  /\ arg[j].fees # <<>> =>
                        edge.fees = <<arg[j].fees[1].amount, arg[j].fees[1].type>>

(***************************************************************************)
(* Claims about how the persistence calls end                              *)
(***************************************************************************)

\* C21 (as stated; the code violates it when connect_db() raises): a
\* failure of insert_main_data or insert_relation_data that escapes the
\* per-item handling, a connection failure included, leaves the call as a
\* DatabaseError and as no other type.
C21_OnlyDatabaseError ==
    (/\ db_pc = "idle"
     /\ call.op \in {"insert_main_data", "insert_relation_data"}
     /\ db_raised \notin {"none", "KeyboardInterrupt"}) =>
        db_raised = "DatabaseError"

\* The step of insert_relation_data that opens the connection and runs the
\* UPDATE of the owner's counts.
C26_CountUpdate ==
    db_pc = "idle" /\ db_pc' = "rel_loop" /\ call'.op = "insert_relation_data"

\* `new` is `old` with, in the rows of `uuid`, the columns of `written`
\* set to its values, and nothing else changed.
C26_OnlyWritten(old, new, uuid, written) ==
    /\ \A r \in old :
         IF r["practo_uuid"] = uuid
           THEN \E n \in new :
                  \A c \in DOMAIN r :
                    n[c] = IF c \in DOMAIN written THEN written[c] ELSE r[c]
           ELSE r \in new
    /\ \A n \in new : n \in old \/ n["practo_uuid"] = uuid
    /\ Cardinality(new) = Cardinality(old)

\* C26: the aggregate counts of the owner are written before any edge of the
\* batch and overwrite what was stored: for a doctor owner the establishment
\* count only, for a facility owner the doctor, bed and ambulance counts; no
\* other column of the owner's row, no row of another UUID and no row of the
\* other table changes, and no edge has been inserted yet.
C26_CountsOverwritten ==
    [][C26_CountUpdate =>
        /\ tx_relations' = practo_doctor_establishment
        /\ IF call'.key = "doctor"
             THEN /\ C26_OnlyWritten(practo_doctors, tx_doctors', call'.practo_id,
                        [c \in {"establishment_count"} |-> call'.count])
                  /\ tx_establishments' = practo_establishments
             ELSE /\ C26_OnlyWritten(practo_establishments, tx_establishments',
                        call'.practo_id,
                        [c \in {"doctor_count", "number_of_beds", "number_of_ambulances"} |->
                            IF c = "doctor_count" THEN call'.count
                            ELSE IF c = "number_of_beds" THEN call'.bed_count
                            ELSE call'.amb_count])
                  /\ tx_doctors' = practo_doctors
    ]_vars

\* A facility owner whose stored counts all differ from the new ones, next
\* to a row of another facility, right after the UPDATE.
C26_Witness ==
    /\ db_pc = "rel_loop" /\ item_log = <<>> /\ batch = call.relation
    /\ call.op = "insert_relation_data" /\ call.key # "doctor"
    /\ \E r \in practo_establishments :
         /\ r["practo_uuid"] = call.practo_id
         /\ r["doctor_count"] # call.count
         /\ r["number_of_beds"] # call.bed_count
         /\ r["number_of_ambulances"] # call.amb_count
    /\ \E r \in practo_establishments : r["practo_uuid"] # call.practo_id
    /\ \E r \in tx_establishments :
         r["practo_uuid"] = call.practo_id /\ r["doctor_count"] = call.count

\* The rows of the owner of the current relation call hold the counts the
\* call was given.
C27_CountsStored(doctors, establishments) ==
    IF call.key = "doctor"
      THEN \A r \in RowsWithUUID(doctors, call.practo_id) :
              r["establishment_count"] = call.count
      ELSE \A r \in RowsWithUUID(establishments, call.practo_id) :
              /\ r["doctor_count"] = call.count
              /\ r["number_of_beds"] = call.bed_count
              /\ r["number_of_ambulances"] = call.amb_count

\* C27 (as stated; the code violates it, the UPDATE and the edge inserts
\* being statements of one transaction that is committed once, at the end):
\* an abort of insert_relation_data after the aggregate-count update and
\* before an edge insert is committed leaves the store with the owner's
\* counts updated and none of the edges of the batch.
C27_CountsWithoutEdges ==
    [][(CallAborts /\ call.op = "insert_relation_data") =>
        /\ C27_CountsStored(practo_doctors', practo_establishments')
        /\ practo_doctor_establishment' = practo_doctor_establishment
    ]_vars

\* C27 (amended): the relation batch is atomic across its aggregate-count
\* update and its edge inserts: no step of insert_relation_data but its
\* commit changes the store, so a call that is aborted after the UPDATE
\* leaves the counts, the stubs and the edges as they were before the call.
C27_AbortLeavesStore ==
    [][(call.op = "insert_relation_data" /\ db_pc # "idle" /\ ~RelCommit) =>
          UNCHANGED store
    ]_vars

\* An aborted call whose UPDATE had changed the counts of a stored owner and
\* whose first edge had been inserted: the store holds neither.
C27_Witness ==
    /\ db_pc = "idle" /\ call.op = "insert_relation_data"
    /\ db_raised = "KeyboardInterrupt"
    /\ item_log # <<>> /\ item_log[1] = "ok"
    /\ RowsWithUUID(IF call.key = "doctor" THEN practo_doctors
                    ELSE practo_establishments, call.practo_id) # {}
    /\ ~C27_CountsStored(practo_doctors, practo_establishments)

\* C28: a connection is scoped to one call of insert_main_data,
\* insert_relation_data or execute_query: while a call runs exactly one
\* connection is open, and when the call has returned or raised none is, so
\* no connection is open between calls and never more than one at a time.
C28_ConnectionPerCall ==
    /\ conn_open = (IF db_pc = "idle" THEN 0 ELSE 1)
    /\ (db_pc # "idle") =>
          call.op \in {"insert_main_data", "insert_relation_data", "execute_query"}

\* A call that had opened its connection and run a statement has ended by
\* raising from its commit.
C28_Witness ==
    /\ db_pc = "idle" /\ n_calls = 1
    /\ call.op = "insert_main_data"
    /\ db_raised = "DatabaseError"
    /\ item_log # <<>>

(***************************************************************************)
(* Claims about decoding and early return in make_request (SpecHTTP)       *)
(***************************************************************************)
\* The latest attempt of the call received a response that raise_for_status
\* accepts.
C24_GotSuccess == last_outcome.kind = "response" /\ last_outcome.status < 400

\* C24: with return_json on, a response that cannot be decoded is retried
\* like a transient error, after the sleep retry_delay * 2^attempt, and
\* ends the call only on the last attempt, with the RequestError "Invalid
\* JSON response" after exactly max_retries requests; with return_json off
\* nothing is decoded and the call returns the content of the first
\* response that raise_for_status accepts.
C24_DecodeFailureRetried ==
    /\ (C24_GotSuccess /\ return_json /\ ~last_outcome.json_ok) =>
          /\ mr_pc \in {"failed", "attempt", "raised"}
          /\ mr_result = "none"
          /\ mr_pc = "failed" => (n_requests < max_retries /\ err = NoError)
          /\ mr_pc = "attempt" =>
                /\ Len(sleeps) = n_requests
                /\ sleeps[n_requests] = retry_delay * C3_PowersOfTwo[n_requests]
          /\ mr_pc = "raised" =>
                /\ n_requests = max_retries
                /\ Len(sleeps) = max_retries - 1
                /\ err = RequestError("Invalid JSON response", None, url)
    /\ (C24_GotSuccess /\ ~return_json) =>
          /\ mr_pc = "returned"
          /\ mr_result = "content"
          /\ err = NoError
          /\ n_requests = Len(sleeps) + 1

\* Three undecodable responses in a call of three attempts: two sleeps, then
\* the RequestError.
C24_Witness ==
    /\ mr_pc = "raised" /\ return_json /\ max_retries = 3
    /\ C24_GotSuccess /\ ~last_outcome.json_ok
    /\ n_requests = 3 /\ Len(sleeps) = 2
    /\ err.message = "Invalid JSON response"

\* C25: make_request returns as soon as one attempt succeeds: when the
\* attempts so far all failed with retryable errors and the next one, the
\* k-th, succeeds (its body decodable when return_json is on), the call
\* returns that attempt's result after exactly k requests and k - 1 sleeps
\* (k <= max_retries), it raises nothing, and it issues no further request.
C25_ReturnsOnFirstSuccess ==
    [][/\ (/\ mr_pc = "attempt" /\ only_retryable
           /\ n_requests' = n_requests + 1
           /\ last_outcome'.kind = "response" /\ last_outcome'.status < 400
           /\ (return_json => last_outcome'.json_ok)) =>
             /\ mr_pc' = "returned"
             /\ mr_result' = (IF return_json THEN "json" ELSE "content")
             /\ response' = last_outcome'.status
             /\ n_requests' = Len(sleeps') + 1
             /\ Len(sleeps') = n_requests
             /\ n_requests' <= max_retries
             /\ err' = NoError
       /\ mr_pc = "returned" => (mr_pc' = "attempt" /\ n_requests' = 0)
    ]_vars

\* Two failed attempts, then a 200 on the third of four: the call has
\* returned after three requests and two sleeps.
C25_Witness ==
    /\ mr_pc = "returned" /\ max_retries = 4
    /\ last_outcome.kind = "response" /\ last_outcome.status = 200
    /\ n_requests = 3 /\ Len(sleeps) = 2
    /\ err = NoError

(***************************************************************************)
(* Claims about the run as a whole                                         *)
(***************************************************************************)

\* C22: a KeyboardInterrupt arriving at any point of the run (in a fetch,
\* a sleep, a parser or a persistence call) ends the run at once with exit
\* status 0: no handler of a profile, a page or a seed URL absorbs it (no
\* counter moves, no loop goes on), and once the process has exited no
\* further page or profile is processed.
C22_InterruptExitsZero ==
    [][/\ Interrupt =>
            /\ main_pc' = "exited"
            /\ exit_status' = 0
            /\ UNCHANGED <<url_index, page, profile, success_count, error_count,
                           page_log, pause_log, seed_calls, run_effects, otherVars>>
       /\ main_pc = "exited" => main_pc' = "exited" /\ UNCHANGED exit_status
                                 /\ UNCHANGED <<page_log, seed_calls, run_effects>>
    ]_vars

\* The run was interrupted while a profile of the second page was being
\* processed, after a profile had been stored, and has exited with status 0.
C22_Witness ==
    /\ main_pc = "exited" /\ exit_status = 0
    /\ step_outcome = "KeyboardInterrupt"
    /\ page = 2 /\ profile # <<>>
    /\ success_count >= 1

C23_InProfile == main_pc \in {"profile_json", "profile_html", "profile_relation"}

\* C23: the order of the steps of one seed URL.  The fetch that determines
\* the count is the first call made for the seed URL and is made once, before
\* any page fetch; the profiles of a page are fetched only after the page's
\* entities were persisted; the ProfileReferences are taken in the order
\* the normalizer returned them, each with its detail JSON fetched before
\* its HTML page and both before the relation batch is extracted and then
\* persisted; and a page is finished (its last ProfileReference taken, or
\* the page given up) before the next page starts.
C23_StepOrder ==
    [][/\ main_pc' = "seed_fetch" =>
            (main_pc = "next_url" /\ url_index' = url_index + 1 /\ page_log' = <<>>
             /\ seed_calls' = [profile_fetched |-> FALSE, persisted |-> FALSE])
       /\ main_pc = "seed_fetch" =>
            (main_pc' \in {"count", "next_url"} /\ UNCHANGED <<page_log, seed_calls>>)
       /\ main_pc' = "page_fetch" => (main_pc = "page_begin" /\ count > 0)
       /\ main_pc' = "page_begin" =>
            \/ main_pc = "count" /\ page' = 1 /\ page_log = <<>>
            \/ page' = page + 1 /\ profile' = <<>> /\ (C23_InProfile => Len(profile) = 1)
       /\ page' # page => main_pc' \in {"page_begin", "next_url"}
       /\ (main_pc' = "profile_json" /\ ~C23_InProfile) =>
            /\ main_pc = "page_main" /\ step_outcome' = "ok" /\ seed_calls'.persisted
            /\ profile' # <<>> /\ \A i \in 1..Len(profile') : profile'[i] = i
       /\ (main_pc' = "profile_json" /\ C23_InProfile) =>
            (profile # <<>> /\ profile' = Tail(profile) /\ profile' # <<>>)
       /\ main_pc' = "profile_html" =>
            (main_pc = "profile_json" /\ step_outcome' = "ok" /\ UNCHANGED profile)
       /\ main_pc' = "profile_relation" =>
            (main_pc = "profile_html" /\ step_outcome' = "ok" /\ UNCHANGED profile)
       /\ (main_pc = "profile_relation" /\ step_outcome' = "extract_failed") =>
            UNCHANGED <<seed_calls, run_effects>>
    ]_vars

\* The second ProfileReference of the second page has had both its fetches
\* and is at its relation batch, the first one having been stored.
C23_Witness ==
    /\ main_pc = "profile_relation" /\ page = 2
    /\ profile = <<2>>
    /\ seed_calls.persisted /\ seed_calls.profile_fetched
    /\ success_count >= 1

\* C29: once urls.txt is loaded the run ends in the completed state (every
\* fetch and persistence call returning or raising), having taken every
\* seed URL once and in file order: the for loop takes the seed URLs one by
\* one, whatever failed in the previous one, the run ends only after the
\* last one, and it ends with status 0.
C29_VisitsEverySeedUrl ==
    /\ (main_pc = "next_url") ~> (main_pc = "completed")
    /\ [](main_pc = "completed" => (url_index = Len(urls) /\ exit_status = 0))
    /\ [](main_pc = "exited" => url_index = 0)
    /\ [][/\ url_index' # url_index =>
               /\ url_index' = url_index + 1
               /\ url_index' <= Len(urls)
               /\ link' = urls[url_index']
               /\ main_pc' = "seed_fetch"
          /\ main_pc' = "next_url" =>
               (main_pc # "load_urls" => (urls' = urls /\ url_index' = url_index))
          /\ (main_pc \notin {"start", "load_urls", "next_url"}) =>
               (exit_status' = Running /\ urls' = urls)
       ]_vars

\* The run is completed after two seed URLs, pages of the second one
\* having been fetched.
C29_Witness ==
    /\ main_pc = "completed" /\ exit_status = 0
    /\ Len(urls) = 2 /\ url_index = 2 /\ link = urls[2]
    /\ page_log # <<>>

\* The step ends the processing of the ProfileReference at the head of
\* `profile`.
C30_ProfileDone == C23_InProfile /\ (profile' # profile \/ main_pc' = "page_begin")

\* C30: the counters of a seed URL.  Every ProfileReference the page loop
\* processes adds exactly one to exactly one of success_count and
\* error_count: to success_count when its two fetches had succeeded and its
\* relation batch was extracted and insert_relation_data returned, to
\* error_count otherwise.  In the page loop neither counter ever decreases
\* and a step adds at most one to one of them.  The counters decide
\* nothing: whatever they hold, the page loop is left only past its last
\* page and the profile loop of a page only past its last ProfileReference.
C30_CounterBookkeeping ==
    [][/\ C30_ProfileDone =>
            IF main_pc = "profile_relation" /\ step_outcome' = "stored"
              THEN success_count' = success_count + 1 /\ error_count' = error_count
              ELSE error_count' = error_count + 1 /\ success_count' = success_count
       /\ (C23_InProfile /\ ~C30_ProfileDone) =>
            (step_outcome' = "ok" /\ UNCHANGED <<success_count, error_count>>)
       /\ (InPageLoop /\ main_pc' # "next_url") =>
            /\ success_count' >= success_count /\ error_count' >= error_count
            /\ success_count' + error_count' <= success_count + error_count + 1
       /\ (InPageLoop /\ main_pc' = "next_url") =>
            (main_pc = "page_begin" /\ page = total_pages + 1
             /\ Len(page_log) = total_pages)
       /\ (C23_InProfile /\ main_pc' = "page_begin") => Len(profile) = 1
    ]_vars

\* On the second page one ProfileReference was stored after one had failed
\* on the first page, and the next ProfileReference is being taken.
C30_Witness ==
    /\ main_pc = "profile_json" /\ page = 2 /\ profile = <<2>>
    /\ step_outcome = "stored"
    /\ success_count = 1 /\ error_count >= 1

(***************************************************************************)
(* Claims about the entity type of a page, edges and fees                  *)
(***************************************************************************)

\* C31 (as stated; the code violates it: the page without an entity type is
\* skipped with a warning and no counter moves): the entity type used for
\* a page is the one of the page's body, never the one of the seed URL, and
\* a page that was fetched and carries no entity type is skipped (nothing
\* is normalized, persisted or profile-fetched for it) and adds one to the
\* error counter.
C31_NoTypeCountedAsError ==
    [][main_pc = "page_type" =>
          IF page_response.results_type = "none"
            THEN /\ main_pc' = "page_begin" /\ page' = page + 1
                 /\ profile' = <<>>
                 /\ UNCHANGED <<seed_calls, run_effects, success_count>>
                 /\ error_count' = error_count + 1
            ELSE /\ main_pc' = "page_main"
                 /\ result_type' = page_response.results_type
    ]_vars

\* C32 (as stated; the code violates it when the owner's own row is absent:
\* the items of an owner carry the description of the counterpart only, so
\* no stub is made for the owner and the edge is stored with NULL in the
\* owner's id column): every edge row insert_relation_data commits links a
\* provider row and a facility row that both exist in the store, whatever
\* the store held at the start of the call.
C32_EdgesLinkExistingRows ==
    [][RelCommit =>
        \A k \in (Len(practo_doctor_establishment) + 1)
                    ..Len(practo_doctor_establishment') :
            LET row == practo_doctor_establishment'[k]
            IN  /\ row.doctor_id # NullId
                /\ row.establishment_id # NullId
                /\ \E r \in practo_doctors' : r["practo_uuid"] = row.doctor_id
                /\ \E r \in practo_establishments' :
                      r["practo_uuid"] = row.establishment_id
    ]_vars

\* The fee list of the relation is absent, or present but empty.
C33_NoFeeEntry(relation) == ~relation.has_fees \/ relation.fees = <<>>

\* C33 (as stated; the code violates it for a fee list that is present but
\* empty, where value.get("fees", [{}])[0] raises IndexError): a relation
\* without a fee entry still yields one edge per timing window, each with
\* a null fee amount and type, and the extractor returns, so the edges of
\* the owner's other relations and the owner's counts come out as well.
C33_EmptyFeesTolerated ==
    (/\ fn \in {"parse_doctor_establishment_relation",
                "parse_establishment_doctor_relation"}
     /\ ret.status # "pending"
     /\ \E j \in 1..Len(arg) : C33_NoFeeEntry(arg[j])) =>
        /\ ret.status = "returned"
        /\ DOMAIN ret.value = 0..(C20_Timings(arg, Len(arg)) - 1)
        /\ \A j \in 1..Len(arg) :
              C33_NoFeeEntry(arg[j]) =>
                \A k \in 1..Len(arg[j].timings) :
                  LET edge == ret.value[C20_Timings(arg, j - 1) + k - 1].relation_info
                  IN  /\ edge.fees = <<None, "None">>
                      /\ edge.begin_time = arg[j].timings[k].begin_time
                      /\ edge.end_time = arg[j].timings[k].end_time

====
